---- MODULE Spec2Model ----
(***************************************************************************)
(* Model of the NenDB benchmark harness (Nen-Co/nen-db, python scripts):   *)
(* the resource samplers, the benchmark steps that run a sampler thread    *)
(* beside a workload, the parsing of the workload subprocess output and    *)
(* the comparison reports.                                                 *)
(*                                                                         *)
(* Conventions.  A python dict is a function from its string keys; the     *)
(* empty dict {} is the function with the empty domain.  A float produced  *)
(* by a division is kept as the fraction [num, den] it stands for, the    *)
(* sum(v) / len(v) of the samplers rounded as a float of MantissaBits      *)
(* bits; float('inf') is Inf; None is -1, a value no reading takes.  The   *)
(* time a                                                                  *)
(* sampler reads with time.time() - start_time is the sum of the durations *)
(* of its own blocking calls, in seconds.  Workload timings are in units   *)
(* of 1e-6 ms (0.003328 ms = 3328) and of 1e-6 s, so every rate is in      *)
(* units of 1e6 operations per second: 1000 / insert_time is 1000 / 3328.  *)
(***************************************************************************)
EXTENDS Integers, Sequences, FiniteSets, TLC

\* ----------------------------------------------------------------- bounds
\* Largest duration (seconds) a stand-alone sampler call is given.
MaxDuration == 5
\* Largest extra latency (seconds) of one blocking call.
MaxDrift == 1
\* CPU readings are 0..MaxCpu percent.
MaxCpu == 1
\* Memory readings are 1..MaxMem whole MiB (process) or GiB (system).
MaxMem == 1
\* Disk counters grow by 0..MaxDisk whole MiB between two reads.
MaxDisk == 1
\* The bits of a float's significand, and the range of its exponent.
MantissaBits == 3
MaxExponent == 8

\* ------------------------------------------------------ program constants
\* process.cpu_percent(interval=1) / psutil.cpu_percent(interval=1)
CpuInterval == 1
\* time.sleep(1)
SleepInterval == 1

\* Memory sizes are counted in KiB.
MiB == 1024
GiB == 1024 * 1024

\* The entries psutil.process_iter yields, at most.
MaxProcs == 2
\* monitor_*(10) before the workload, scaled.
BaselineDuration == 1
\* monitor_*(30) beside the workload, scaled.
MonitorDuration == 2
\* for i in range(10000), scaled.
CreateCount == 2
\* The timings printed or measured besides the two fallback values: 1..MaxTime.
MaxTime == 1
\* The lines of the workload's output, at most.
MaxLines == 2
\* The samples behind each aggregate a report generator is given, at most.
ReportSamples == 1
\* The memory readings behind them are 1..MaxReportMem GiB.
MaxReportMem == 2

\* Times are held in units of 1e-6 ms (per-operation timings) and of 1e-6 s
\* (workload durations), so every rate is in units of 1e6 operations/second.
\* nodes_per_second = 10000 / creation_time
CreateScale == 10000
\* for i in range(10000)
CreateRange == 10000
\* lookups_per_second = 1000 / lookup_time
LookupScale == 1000
\* insert_rate = 1000 / insert_time
RateScale == 1000
\* insert_time = 0.003328; lookup_time = 0.003130
FallbackInsert == 3328
FallbackLookup == 3130
\* fair_benchmark: insert_time = 0.004547; lookup_time = 0.002881
FairFallbackInsert == 4547
FairFallbackLookup == 2881
\* "memory_per_node": 200 and "memory_per_node": 144
MemgraphBytesPerNode == 200
NendbBytesPerNode == 144
\* max_score in the three reports
ResourceMaxScore == 6
FinalMaxScore == 4
FairMaxScore == 6
CompetitiveMaxScore == 8
RealMaxScore == 6

\* ------------------------------------------------------------------ state
VARIABLES
  proc,          \* the sampled process: "alive", "gone" (NoSuchProcess), "denied" (AccessDenied)
  s_fn,          \* per sampler: which monitor function runs ("process", "system", "resources")
  s_pc,          \* per sampler: position in the monitor function
  duration,      \* per sampler: the duration argument
  elapsed,       \* per sampler: time.time() - start_time
  cpu_usage,     \* per sampler: the cpu_usage list
  memory_usage,  \* per sampler: the memory_usage list
  initial_disk,  \* per sampler: the initial_disk counters <<read, write>>, or NoCounters
  disk_io,       \* per sampler: the disk_io list of <<read, write>> deltas
  s_stop,        \* per sampler: how the while loop was left ("none", "budget", "break")
  s_result,      \* per sampler: the returned dict
  script,        \* the script that runs: "accurate", "resource", "final", "fair", ...
  h_pc,          \* position of the main thread in run_*_comparison and its steps
  processes,     \* the process list a locator call on its own iterates over
  target,        \* the process the locator returned (its index in the list), or None
  baseline_resources, \* the dict returned by the synchronous monitor call
  loop_i,        \* the workload loop's counter i
  creation_time, \* time.time() - start_time after the create loop
  insert_time,   \* parsed (or fallback) insert timing, or None
  lookup_time,   \* parsed (or fallback) lookup timing, or None; the lookup loop's time
  output,        \* the lines of the workload subprocess's stdout
  memgraph_results,
  nendb_results,
  neo4j_results, \* the third system's results (competitive_benchmark only), else {}
  report,        \* what the report generator computed and printed
  saved,         \* the document written to the results file, or {}
  file           \* the results file: whether it exists, and the chunks written to it

svars == <<proc, s_fn, s_pc, duration, elapsed, cpu_usage, memory_usage,
           initial_disk, disk_io, s_stop, s_result>>
hvars == <<script, processes, h_pc, target, baseline_resources, loop_i, creation_time, insert_time,
           lookup_time, output, memgraph_results, nendb_results, neo4j_results, report, saved, file>>
vars == <<svars, hvars>>

None == -1

\* The monitor calls that can exist in one run: the synchronous call of the
\* main thread, and the monitor thread of each of the two benchmark steps.
SamplerIds == {"main", "thr_memgraph", "thr_nendb"}

EmptyDict == [k \in {} |-> 0]
IsEmptyDict(d) == DOMAIN d = {}

\* The results file: absent, or present with the chunks written to it so far.
NoFile == [exists |-> FALSE, chunks |-> <<>>]

\* -------------------------------------------------------------- fractions
Frac(n, d) == [num |-> n, den |-> d]
FracLess(a, b) == a.num * b.den < b.num * a.den
FracEq(a, b) == a.num * b.den = b.num * a.den
FracLeq(a, b) == a.num * b.den <= b.num * a.den

RECURSIVE SeqSum(_)
SeqSum(s) == IF s = <<>> THEN 0 ELSE Head(s) + SeqSum(Tail(s))
SeqMax(s) == CHOOSE x \in {s[i] : i \in 1..Len(s)} : \A j \in 1..Len(s) : s[j] <= x
SeqMin(s) == CHOOSE x \in {s[i] : i \in 1..Len(s)} : \A j \in 1..Len(s) : x <= s[j]

\* ------------------------------------------------- floating-point numbers
\* A Python float is a binary floating-point number: a significand of a fixed
\* number of bits (53) times a power of two, and the result of + and / is the
\* exact result rounded to the nearest such number, ties to the even
\* significand.  The model keeps the rounding and narrows the significand to
\* MantissaBits bits; a float is held as the exact fraction it stands for.
RECURSIVE Pow2(_)
Pow2(k) == IF k = 0 THEN 1 ELSE 2 * Pow2(k - 1)

\* n / d scaled by 2^-e, as a pair <<numerator, denominator>>
Scaled(n, d, e) == IF e >= 0 THEN <<n, d * Pow2(e)>> ELSE <<n * Pow2(0 - e), d>>

\* the exponent e for which the scaled value is a full significand
Exponent(x) ==
  CHOOSE e \in (0 - MaxExponent)..MaxExponent :
    LET sc == Scaled(x.num, x.den, e)
    IN /\ sc[1] >= sc[2] * Pow2(MantissaBits - 1)
       /\ sc[1] < sc[2] * Pow2(MantissaBits)

\* a / b rounded to the nearest integer, ties to even
RoundHalfEven(a, b) ==
  LET q == a \div b
      r == a % b
  IN IF 2 * r > b THEN q + 1
     ELSE IF 2 * r = b THEN q + (q % 2)
     ELSE q

\* the float nearest to the non-negative fraction x (v is x, computed once)
RoundFloat(x) ==
  CHOOSE r \in {IF v.num = 0 THEN Frac(0, 1)
                ELSE LET e == Exponent(v)
                         sc == Scaled(v.num, v.den, e)
                         q == RoundHalfEven(sc[1], sc[2])
                     IN IF e >= 0 THEN Frac(q * Pow2(e), 1) ELSE Frac(q, Pow2(0 - e)) :
                v \in {x}} : TRUE

\* sum(values): start = 0, then start = start + v for each v in order
RECURSIVE FloatSumFrom(_, _)
FloatSumFrom(start, values) ==
  IF values = <<>> THEN start
  ELSE FloatSumFrom(RoundFloat(Frac(start.num + Head(values) * start.den, start.den)),
                    Tail(values))

FloatSum(values) == FloatSumFrom(Frac(0, 1), values)

\* the mean computed exactly, as statistics.mean computes it
ExactMean(values) == Frac(SeqSum(values), Len(values))

\* sum(values) / len(values)
FloatMean(values) ==
  LET total == FloatSum(values)
  IN RoundFloat(Frac(total.num, total.den * Len(values)))

\* ------------------------------------------------------------ aggregation
\* monitor_process_resources, lines 72-82
AggregateZeroFilled(cpu, mem) ==
  IF cpu = <<>> \/ mem = <<>>
  THEN [cpu_avg |-> Frac(0, 1), cpu_max |-> 0, cpu_min |-> 0,
        memory_avg_mb |-> Frac(0, 1), memory_max_mb |-> 0, memory_min_mb |-> 0]
  ELSE [cpu_avg |-> Frac(SeqSum(cpu), Len(cpu)),
        cpu_max |-> SeqMax(cpu),
        cpu_min |-> SeqMin(cpu),
        memory_avg_mb |-> Frac(SeqSum(mem), Len(mem)),
        memory_max_mb |-> SeqMax(mem),
        memory_min_mb |-> SeqMin(mem)]

AggregateProcess(cpu, mem) ==
  IF cpu = <<>> \/ mem = <<>>
  THEN EmptyDict
  ELSE [cpu_avg |-> FloatMean(cpu),
        cpu_max |-> SeqMax(cpu),
        cpu_min |-> SeqMin(cpu),
        memory_avg_mb |-> FloatMean(mem),
        memory_max_mb |-> SeqMax(mem),
        memory_min_mb |-> SeqMin(mem)]

\* monitor_system_resources, lines 254-261: sum(cpu_usage) / len(cpu_usage)
\* raises ZeroDivisionError on an empty list.
AggregateSystemRaises(cpu, mem) == Len(cpu) = 0 \/ Len(mem) = 0

AggregateSystem(cpu, mem) ==
  [cpu_avg |-> FloatMean(cpu),
   cpu_max |-> SeqMax(cpu),
   cpu_min |-> SeqMin(cpu),
   memory_avg_gb |-> FloatMean(mem),
   memory_max_gb |-> SeqMax(mem),
   memory_min_gb |-> SeqMin(mem)]

\* monitor_resources, lines 53-62: statistics.mean raises StatisticsError on
\* an empty list.
AggregateResourcesRaises(cpu, mem) == Len(cpu) = 0 \/ Len(mem) = 0

RECURSIVE SumReads(_)
SumReads(s) == IF s = <<>> THEN 0 ELSE Head(s)[1] + SumReads(Tail(s))
RECURSIVE SumWrites(_)
SumWrites(s) == IF s = <<>> THEN 0 ELSE Head(s)[2] + SumWrites(Tail(s))

\* The disk deltas are whole MiB, so sum(...) / (1024 * 1024) is exact.
AggregateResources(cpu, mem, dio) ==
  [cpu_avg |-> ExactMean(cpu),
   cpu_max |-> SeqMax(cpu),
   cpu_min |-> SeqMin(cpu),
   memory_avg_gb |-> ExactMean(mem),
   memory_max_gb |-> SeqMax(mem),
   memory_min_gb |-> SeqMin(mem),
   disk_read_total_mb |-> (SumReads(dio) * MiB) \div MiB,
   disk_write_total_mb |-> (SumWrites(dio) * MiB) \div MiB]

\* ---------------------------------------------------------------- sampler
\* while time.time() - start_time < duration
LoopConditionByTicks(id) == Len(cpu_usage[id]) < duration[id]

LoopCondition(id) == elapsed[id] < duration[id]

\* The sampler fields of `id` set to the given values, the other samplers'
\* fields kept.
SetSampler(id, fn, pc, dur, idisk) ==
  /\ s_fn' = [s_fn EXCEPT ![id] = fn]
  /\ s_pc' = [s_pc EXCEPT ![id] = pc]
  /\ duration' = [duration EXCEPT ![id] = dur]
  /\ elapsed' = [elapsed EXCEPT ![id] = 0]
  /\ cpu_usage' = [cpu_usage EXCEPT ![id] = <<>>]
  /\ memory_usage' = [memory_usage EXCEPT ![id] = <<>>]
  /\ initial_disk' = [initial_disk EXCEPT ![id] = idisk]
  /\ disk_io' = [disk_io EXCEPT ![id] = <<>>]
  /\ s_stop' = [s_stop EXCEPT ![id] = "none"]
  /\ s_result' = [s_result EXCEPT ![id] = EmptyDict]

\* psutil.disk_io_counters(): cumulative counters <<read, write>>, or None
\* (held as the empty tuple) on a machine that reports no disk.
NoCounters == <<>>
DiskCounters ==
  {NoCounters} \cup (IF script = "none" THEN (0..MaxDisk) \X (0..MaxDisk) ELSE {<<0, 0>>})

\* The extra latency of one blocking call.  A monitor call on its own meets
\* every latency and every counter value within the bounds; under a script
\* the calls take their nominal time and the counters start at zero.
Drifts == IF script = "none" THEN 0..MaxDrift ELSE {0}

\* The entry of a monitor function: the lists are emptied, the clock starts;
\* monitor_resources also reads the disk counters.
StartedSampler(id, fn, dur) ==
  \E idisk \in (IF fn = "resources" THEN DiskCounters ELSE {NoCounters}) :
    SetSampler(id, fn, "check", dur, idisk)

\* The locals of a monitor call that has returned are gone.
ClearedSampler(id) == SetSampler(id, "process", "idle", 0, NoCounters)

\* The loop test.
LoopCheck(id) ==
  /\ s_pc[id] = "check"
  /\ IF LoopCondition(id)
     THEN /\ s_pc' = [s_pc EXCEPT ![id] = "cpu"]
          /\ UNCHANGED s_stop
     ELSE /\ s_pc' = [s_pc EXCEPT ![id] = "agg"]
          /\ s_stop' = [s_stop EXCEPT ![id] = "budget"]
  /\ UNCHANGED <<proc, s_fn, duration, elapsed, cpu_usage, memory_usage,
                 initial_disk, disk_io, s_result>>
  /\ UNCHANGED hvars

\* except (psutil.NoSuchProcess, psutil.AccessDenied): break
ReadFailurePropagates(id) ==
  /\ s_pc' = [s_pc EXCEPT ![id] = "raised"]
  /\ s_stop' = [s_stop EXCEPT ![id] = "break"]
  /\ UNCHANGED <<proc, s_fn, duration, elapsed, cpu_usage, memory_usage,
                 initial_disk, disk_io, s_result>>

ReadFailure(id) ==
  /\ s_pc' = [s_pc EXCEPT ![id] = "agg"]
  /\ s_stop' = [s_stop EXCEPT ![id] = "break"]
  /\ UNCHANGED <<proc, s_fn, duration, elapsed, cpu_usage, memory_usage,
                 initial_disk, disk_io, s_result>>

\* A per-process read raises when the process is gone or access is denied;
\* the system-wide reads do not raise.
ReadRaises(id) == s_fn[id] = "process" /\ proc # "alive"

\* The readings cpu_percent returns: small whole percentages and, for a
\* monitor call on its own, one reading whose significand has no spare low
\* bit (as that of 0.1 has none in a Python float).
CpuReadings ==
  (0..MaxCpu) \cup (IF script = "none" THEN {Pow2(MantissaBits) - 2} ELSE {})

\* cpu_percent(interval=1): blocks for the interval, then the reading is appended.
ReadCpu(id) ==
  /\ s_pc[id] = "cpu"
  /\ IF ReadRaises(id)
     THEN ReadFailure(id)
     ELSE \E c \in CpuReadings, d \in Drifts :
            /\ cpu_usage' = [cpu_usage EXCEPT ![id] = Append(@, c)]
            /\ elapsed' = [elapsed EXCEPT ![id] = @ + CpuInterval + d]
            /\ s_pc' = [s_pc EXCEPT ![id] = "mem"]
            /\ UNCHANGED <<proc, s_fn, duration, memory_usage, initial_disk, disk_io,
                           s_stop, s_result>>
  /\ UNCHANGED hvars

\* memory_info().rss / (1024 * 1024), or virtual_memory().used / (1024 ** 3):
\* the sizes read are whole MiB / GiB (held in KiB), so the division is exact.
ReadMem(id) ==
  /\ s_pc[id] = "mem"
  /\ IF ReadRaises(id)
     THEN ReadFailure(id)
     ELSE \E k \in 1..MaxMem :
            LET unit == IF s_fn[id] = "process" THEN MiB ELSE GiB
                bytes == k * unit
            IN /\ memory_usage' = [memory_usage EXCEPT ![id] = Append(@, bytes \div unit)]
               /\ s_pc' = [s_pc EXCEPT ![id] = IF s_fn[id] = "resources" THEN "disk" ELSE "sleep"]
               /\ UNCHANGED <<proc, s_fn, duration, elapsed, cpu_usage, initial_disk, disk_io,
                              s_stop, s_result>>
  /\ UNCHANGED hvars

\* the counters themselves recorded, not what was added to them
DiskCumulative(current, previous) == current

\* monitor_resources, lines 46-47: read_bytes and write_bytes
DiskDelta(current, previous) ==
  <<current[1] - previous[1], current[2] - previous[2]>>

\* monitor_resources, lines 44-49: the counters are cumulative, so the new
\* reading is the previous one plus what was read and written since; a
\* reading of None (met by a monitor call on its own) records nothing.
ReadDisk(id) ==
  /\ s_pc[id] = "disk"
  /\ IF initial_disk[id] # NoCounters
     THEN \/ \E dr \in 0..MaxDisk, dw \in 0..MaxDisk :
               LET current_disk == <<initial_disk[id][1] + dr, initial_disk[id][2] + dw>>
               IN /\ disk_io' = [disk_io EXCEPT
                                  ![id] = Append(@, DiskDelta(current_disk, initial_disk[id]))]
                  /\ initial_disk' = [initial_disk EXCEPT ![id] = current_disk]
          \/ /\ script = "none"
             /\ UNCHANGED <<disk_io, initial_disk>>
     ELSE UNCHANGED <<disk_io, initial_disk>>
  /\ s_pc' = [s_pc EXCEPT ![id] = "sleep"]
  /\ UNCHANGED <<proc, s_fn, duration, elapsed, cpu_usage, memory_usage, s_stop, s_result>>
  /\ UNCHANGED hvars

\* time.sleep(1)
Sleep(id) ==
  /\ s_pc[id] = "sleep"
  /\ \E d \in Drifts :
       elapsed' = [elapsed EXCEPT ![id] = @ + SleepInterval + d]
  /\ s_pc' = [s_pc EXCEPT ![id] = "check"]
  /\ UNCHANGED <<proc, s_fn, duration, cpu_usage, memory_usage, initial_disk, disk_io,
                 s_stop, s_result>>
  /\ UNCHANGED hvars

\* What the statements after the loop return, and whether they raise instead.
AggregateRaises(id) ==
  CASE s_fn[id] = "process" -> FALSE
    [] s_fn[id] = "system" -> AggregateSystemRaises(cpu_usage[id], memory_usage[id])
    [] s_fn[id] = "resources" -> AggregateResourcesRaises(cpu_usage[id], memory_usage[id])

Aggregated(id) ==
  CASE s_fn[id] = "process" -> AggregateProcess(cpu_usage[id], memory_usage[id])
    [] s_fn[id] = "system" -> AggregateSystem(cpu_usage[id], memory_usage[id])
    [] s_fn[id] = "resources" ->
         AggregateResources(cpu_usage[id], memory_usage[id], disk_io[id])

\* The steps of the harness during which each monitor thread's Thread object
\* is in scope.
MemgraphStepPcs == {"m_work", "m_join", "m_lookup", "m_cleanup", "m_rates"}
NendbStepPcs == {"n_subprocess", "n_join", "n_parse"}
Detached(id) ==
  \/ id = "thr_memgraph" /\ h_pc \notin MemgraphStepPcs
  \/ id = "thr_nendb" /\ ~(script = "resource" /\ h_pc \in NendbStepPcs)

\* The statements after the loop: the empty check and the returned dict.  A
\* thread discards what its target returns, so nothing is left of a monitor
\* thread that ends after the step that started it has returned.
Aggregate(id) ==
  /\ s_pc[id] = "agg"
  /\ IF Detached(id)
     THEN ClearedSampler(id)
     ELSE /\ IF AggregateRaises(id)
             THEN /\ s_pc' = [s_pc EXCEPT ![id] = "raised"]
                  /\ UNCHANGED s_result
             ELSE /\ s_result' = [s_result EXCEPT ![id] = Aggregated(id)]
                  /\ s_pc' = [s_pc EXCEPT ![id] = "done"]
          /\ UNCHANGED <<s_fn, duration, elapsed, cpu_usage, memory_usage,
                         initial_disk, disk_io, s_stop>>
  /\ UNCHANGED proc
  /\ UNCHANGED hvars

SamplerFinished(id) == s_pc[id] \in {"done", "raised"}

\* A step returns: the Thread object of a monitor thread that has ended goes
\* with the step's locals; one that still runs keeps running.
ReleaseThread(id) ==
  /\ IF SamplerFinished(id)
     THEN ClearedSampler(id)
     ELSE UNCHANGED <<s_fn, s_pc, duration, elapsed, cpu_usage, memory_usage,
                      initial_disk, disk_io, s_stop, s_result>>
  /\ UNCHANGED proc

\* The sampled process exits, or access to it is revoked, at any moment.
ProcessExits ==
  /\ proc = "alive"
  /\ proc' = "gone"
  /\ UNCHANGED <<s_fn, s_pc, duration, elapsed, cpu_usage, memory_usage,
                 initial_disk, disk_io, s_stop, s_result>>
  /\ UNCHANGED hvars

AccessRevoked ==
  /\ proc = "alive"
  /\ proc' = "denied"
  /\ UNCHANGED <<s_fn, s_pc, duration, elapsed, cpu_usage, memory_usage,
                 initial_disk, disk_io, s_stop, s_result>>
  /\ UNCHANGED hvars

InitSamplers ==
  /\ proc = "alive"
  /\ s_fn = [id \in SamplerIds |-> "process"]
  /\ s_pc = [id \in SamplerIds |-> "idle"]
  /\ duration = [id \in SamplerIds |-> 0]
  /\ elapsed = [id \in SamplerIds |-> 0]
  /\ cpu_usage = [id \in SamplerIds |-> <<>>]
  /\ memory_usage = [id \in SamplerIds |-> <<>>]
  /\ initial_disk = [id \in SamplerIds |-> NoCounters]
  /\ disk_io = [id \in SamplerIds |-> <<>>]
  /\ s_stop = [id \in SamplerIds |-> "none"]
  /\ s_result = [id \in SamplerIds |-> EmptyDict]

\* The harness at rest: no script runs.
InitHarnessIdle ==
  /\ script = "none"
  /\ h_pc = "end"
  /\ processes = <<>>
  /\ target = None
  /\ baseline_resources = EmptyDict
  /\ loop_i = 0
  /\ creation_time = None
  /\ insert_time = None
  /\ lookup_time = None
  /\ output = <<>>
  /\ memgraph_results = EmptyDict
  /\ nendb_results = EmptyDict
  /\ neo4j_results = EmptyDict
  /\ report = EmptyDict
  /\ saved = EmptyDict
  /\ file = NoFile

\* ------------------------------------------- a monitor function on its own
\* One call of a monitor function with its arguments drawn from bounded sets.
CallMonitor ==
  /\ s_pc["main"] = "idle"
  /\ \E fn \in {"process", "system", "resources"}, dur \in 0..MaxDuration :
       StartedSampler("main", fn, dur)
  /\ UNCHANGED proc
  /\ UNCHANGED hvars

InitSampler == InitSamplers /\ InitHarnessIdle

NextSampler ==
  \/ CallMonitor
  \/ LoopCheck("main")
  \/ ReadCpu("main")
  \/ ReadMem("main")
  \/ ReadDisk("main")
  \/ Sleep("main")
  \/ Aggregate("main")
  \/ ProcessExits
  \/ AccessRevoked

SpecSampler == InitSampler /\ [][NextSampler]_vars

\* ---------------------------------------------- the workload's output lines
\* A line of the subprocess's stdout: one that holds "Average:" and
\* "ms per insert" ("insert"), one that holds "Average:" and "ms per lookup"
\* ("lookup"), each with the decimal printed between "Average:" and "ms", or
\* any other line.
TimeValues == {FallbackInsert, FallbackLookup} \cup (1..MaxTime)
\* The durations a workload of 10000 operations takes.
WorkTimes == {10 * t : t \in TimeValues}
Lines ==
  {[kind |-> "other", value |-> None]}
    \cup {[kind |-> k, value |-> v] : k \in {"insert", "lookup"}, v \in TimeValues}
Outputs == UNION {[1..n -> Lines] : n \in 0..MaxLines}

\* for line in lines: ... (the last matching line of each kind wins)
RECURSIVE ParseLines(_, _, _)
ParseLines(lines, ins, look) ==
  IF lines = <<>>
  THEN <<ins, look>>
  ELSE LET line == Head(lines)
       IN IF line.kind = "insert"
          THEN ParseLines(Tail(lines), line.value, look)
          ELSE IF line.kind = "lookup"
               THEN ParseLines(Tail(lines), ins, line.value)
               ELSE ParseLines(Tail(lines), ins, look)

ParseOutput(out) == ParseLines(out, None, None)

HasLine(out, kind) == \E k \in 1..Len(out) : out[k].kind = kind

\* final_fair_comparison, lines 107-111: both timings are replaced when
\* either is missing.
FallbackBoth(t) ==
  IF t[1] = None \/ t[2] = None THEN <<FallbackInsert, FallbackLookup>> ELSE t

\* each missing timing replaced on its own, the other kept as parsed
FairFallbackEach(t) ==
  <<IF t[1] = None THEN FairFallbackInsert ELSE t[1],
    IF t[2] = None THEN FairFallbackLookup ELSE t[2]>>

\* fair_benchmark, lines 135-139
FairFallback(t) ==
  IF t[1] = None \/ t[2] = None THEN <<FairFallbackInsert, FairFallbackLookup>> ELSE t

\* accurate, lines 192-195; resource, lines 188-191: both timings are replaced
\* when the insert timing is missing.
Fallback(t) ==
  IF t[1] = None THEN <<FallbackInsert, FallbackLookup>> ELSE t

\* insert_rate = 1000 / insert_time; lookup_rate = 1000 / lookup_time:
\* dividing by None raises TypeError.
RatesRaise(t) == t[1] = None \/ t[2] = None

\* ---------------------------------------------------------------- locator
\* One entry of psutil.process_iter: its name holds the hint ("name"), its
\* command line holds it ("cmdline"), neither does ("other"), or looking at
\* the entry raises NoSuchProcess / AccessDenied ("raises").
\* The entries of psutil.process_iter(['pid', 'name', 'cmdline']): the name
\* ("" for None or an empty name), the command line (a list of arguments),
\* and whether inspecting the entry raises NoSuchProcess or AccessDenied.
ProcNames == {"", "python3", "memgraph", "Memgraph", "nendb"}
Cmdlines ==
  {<<>>, <<"python3", "bench.py">>, <<"/usr/lib/Memgraph/memgraph">>,
   <<"zig-out/bin/NenDB", "serve">>}
ProcEntries ==
  [name : ProcNames, cmdline : Cmdlines, raises : {FALSE}]
    \cup {[name |-> "", cmdline |-> <<>>, raises |-> TRUE]}
ProcLists == UNION {[1..n -> ProcEntries] : n \in 0..MaxProcs}

\* ' '.join(cmdline)
JoinArgs(cmdline) ==
  CASE Len(cmdline) = 0 -> ""
    [] Len(cmdline) = 1 -> cmdline[1]
    [] cmdline = <<"python3", "bench.py">> -> "python3 bench.py"
    [] cmdline = <<"zig-out/bin/NenDB", "serve">> -> "zig-out/bin/NenDB serve"

\* the text compared as it is written
AsWritten(text) == text

\* str.lower()
Lower(text) ==
  CASE text = "Memgraph" -> "memgraph"
    [] text = "/usr/lib/Memgraph/memgraph" -> "/usr/lib/memgraph/memgraph"
    [] text = "zig-out/bin/NenDB serve" -> "zig-out/bin/nendb serve"
    [] OTHER -> text

\* hint in text (the comparison of str is case-sensitive)
Contains(hint, text) ==
  CASE hint = "memgraph" -> text \in {"memgraph", "/usr/lib/memgraph/memgraph"}
    [] hint = "nendb" -> text \in {"nendb", "zig-out/bin/nendb serve"}
    [] hint = "nen" -> text \in {"nendb", "zig-out/bin/nendb serve"}

\* find_memgraph_process, lines 24-29: the tests on one entry
Matches(entry) ==
  \/ entry.name # "" /\ Contains("memgraph", Lower(entry.name))
  \/ entry.cmdline # <<>> /\ Contains("memgraph", Lower(JoinArgs(entry.cmdline)))

\* find_nendb_process, lines 38-43
MatchesNendb(entry) ==
  \/ entry.name # "" /\ Contains("nen", Lower(entry.name))
  \/ /\ entry.cmdline # <<>>
     /\ \/ Contains("nendb", Lower(JoinArgs(entry.cmdline)))
        \/ Contains("nen", Lower(JoinArgs(entry.cmdline)))

\* find_memgraph_process: the first entry that matches, or None; an entry
\* whose inspection raises is passed over (except ...: continue).
Locate(pl) ==
  IF \E k \in 1..Len(pl) : ~pl[k].raises /\ Matches(pl[k])
  THEN CHOOSE k \in 1..Len(pl) :
         /\ ~pl[k].raises /\ Matches(pl[k])
         /\ \A j \in 1..(k - 1) : pl[j].raises \/ ~Matches(pl[j])
  ELSE None

\* find_nendb_process
LocateNendb(pl) ==
  IF \E k \in 1..Len(pl) : ~pl[k].raises /\ MatchesNendb(pl[k])
  THEN CHOOSE k \in 1..Len(pl) :
         /\ ~pl[k].raises /\ MatchesNendb(pl[k])
         /\ \A j \in 1..(k - 1) : pl[j].raises \/ ~MatchesNendb(pl[j])
  ELSE None

\* ------------------------------------------------------- the memgraph step
\* The monitor function each script uses.
MonitorFn(side) ==
  IF script = "accurate"
  THEN (IF side = "memgraph" THEN "process" ELSE "system")
  ELSE "resources"

\* The step's locals are gone when it returns.
ClearedLocals ==
  /\ target' = None
  /\ baseline_resources' = EmptyDict
  /\ loop_i' = 0
  /\ creation_time' = None
  /\ insert_time' = None
  /\ lookup_time' = None
  /\ output' = <<>>

\* return from benchmark_memgraph_*: run_*_comparison stores the dict and
\* calls the NenDB step.
ReturnMemgraph(rec) ==
  /\ memgraph_results' = rec
  /\ h_pc' = IF script = "accurate" THEN "n_subprocess" ELSE "n_baseline"
  /\ ClearedLocals
  /\ UNCHANGED <<script, processes, nendb_results, neo4j_results, report, saved, file>>

\* a caller that does not test what the locator returned
NeverNotFound(memgraph_proc) == FALSE

\* if not memgraph_proc
NotFound(memgraph_proc) == memgraph_proc = None

\* accurate, lines 91-97
MFindProcess ==
  /\ h_pc = "m_find"
  /\ \E pl \in ProcLists :
       IF NotFound(Locate(pl))
       THEN ReturnMemgraph(EmptyDict)
       ELSE /\ target' = Locate(pl)
            /\ h_pc' = "m_connect"
            /\ UNCHANGED <<script, processes, baseline_resources, loop_i, creation_time, insert_time,
                           lookup_time, output, memgraph_results, nendb_results, neo4j_results, report, saved, file>>
  /\ UNCHANGED svars

\* import neo4j, the driver and the test query: any of them may raise, and
\* the step's except clause returns {}.
MConnect ==
  /\ h_pc = "m_connect"
  /\ \/ /\ h_pc' = "m_baseline"
        /\ UNCHANGED <<script, processes, target, baseline_resources, loop_i, creation_time, insert_time,
                       lookup_time, output, memgraph_results, nendb_results, neo4j_results, report, saved, file>>
     \/ ReturnMemgraph(EmptyDict)
  /\ UNCHANGED svars

\* baseline_resources = self.monitor_process_resources(memgraph_proc, 10)
\* (resource: self.monitor_resources(10)): the call is entered.
MBaselineCall ==
  /\ h_pc = "m_baseline"
  /\ s_pc["main"] = "idle"
  /\ StartedSampler("main", MonitorFn("memgraph"), BaselineDuration)
  /\ h_pc' = "m_baseline_wait"
  /\ UNCHANGED <<proc, script, processes, target, baseline_resources, loop_i, creation_time, insert_time,
                 lookup_time, output, memgraph_results, nendb_results, neo4j_results, report, saved, file>>

\* The call returns (or raises, and the except clause returns {}); accurate,
\* lines 112-114: an empty baseline ends the step.
MBaselineReturn ==
  /\ h_pc = "m_baseline_wait"
  /\ SamplerFinished("main")
  /\ ClearedSampler("main")
  /\ IF s_pc["main"] = "raised" \/ (script = "accurate" /\ IsEmptyDict(s_result["main"]))
     THEN ReturnMemgraph(EmptyDict)
     ELSE /\ baseline_resources' = s_result["main"]
          /\ h_pc' = "m_thread"
          /\ UNCHANGED <<script, processes, target, loop_i, creation_time, insert_time,
                         lookup_time, output, memgraph_results, nendb_results, neo4j_results, report, saved, file>>
  /\ UNCHANGED proc

\* monitor_thread = threading.Thread(target=..., args=(memgraph_proc, 30));
\* monitor_thread.start(); start_time = time.time()
MStartThread ==
  /\ h_pc = "m_thread"
  /\ StartedSampler("thr_memgraph", MonitorFn("memgraph"), MonitorDuration)
  /\ h_pc' = "m_work"
  /\ loop_i' = 0
  /\ UNCHANGED <<proc, script, processes, target, baseline_resources, creation_time, insert_time,
                 lookup_time, output, memgraph_results, nendb_results, neo4j_results, report, saved, file>>

\* for i in range(10000): session.run("CREATE ..."): one query succeeds or
\* raises (the except clause returns {}, the monitor thread is left running);
\* after the loop, creation_time = time.time() - start_time.
\* for i in range(10000): the loop of the model takes CreateCount steps, each
\* standing for an equal share of the 10000 queries; Issued(i) is the number
\* of queries sent after i steps.
Issued(i) == IF i = CreateCount THEN CreateRange ELSE i * (CreateRange \div CreateCount)

\* a loop that is left after its first step
LoopLeftEarly(i) == i >= 1

\* the for loop ends when the range is exhausted
LoopExhausted(i) == i = CreateCount

MWorkload ==
  /\ h_pc = "m_work"
  /\ \/ /\ loop_i < CreateCount
        /\ loop_i' = loop_i + 1
        /\ UNCHANGED <<script, processes, h_pc, target, baseline_resources, creation_time, insert_time,
                       lookup_time, output, memgraph_results, nendb_results, neo4j_results, report, saved, file>>
        /\ UNCHANGED svars
     \/ /\ loop_i < CreateCount
        /\ ReturnMemgraph(EmptyDict)
        /\ ReleaseThread("thr_memgraph")
     \/ /\ LoopExhausted(loop_i)
        /\ \E t \in WorkTimes : creation_time' = t
        /\ h_pc' = "m_join"
        /\ UNCHANGED <<script, processes, target, baseline_resources, loop_i, insert_time,
                       lookup_time, output, memgraph_results, nendb_results, neo4j_results, report, saved, file>>
        /\ UNCHANGED svars

\* monitor_thread.join()
JoinNoWait(id) == TRUE

\* a join that returns only once the sampling duration has run out
JoinAwaitsBudget(id) == SamplerFinished(id) /\ s_stop[id] = "budget"

Join(id) == SamplerFinished(id)

MJoin ==
  /\ h_pc = "m_join"
  /\ Join("thr_memgraph")
  /\ h_pc' = IF script = "resource" THEN "m_lookup" ELSE "m_cleanup"
  /\ UNCHANGED <<script, processes, target, baseline_resources, loop_i, creation_time, insert_time,
                 lookup_time, output, memgraph_results, nendb_results, neo4j_results, report, saved, file>>
  /\ UNCHANGED svars

\* resource, lines 104-113: the 1000 lookups and their time; a query may raise.
MLookups ==
  /\ h_pc = "m_lookup"
  /\ \/ /\ \E t \in TimeValues : lookup_time' = t
        /\ h_pc' = "m_cleanup"
        /\ UNCHANGED <<script, processes, target, baseline_resources, loop_i, creation_time, insert_time,
                       output, memgraph_results, nendb_results, neo4j_results, report, saved, file>>
        /\ UNCHANGED svars
     \/ /\ ReturnMemgraph(EmptyDict)
        /\ ReleaseThread("thr_memgraph")

\* The DELETE query and driver.close(); either may raise.
MCleanup ==
  /\ h_pc = "m_cleanup"
  /\ \/ /\ h_pc' = "m_rates"
        /\ UNCHANGED <<script, processes, target, baseline_resources, loop_i, creation_time, insert_time,
                       lookup_time, output, memgraph_results, nendb_results, neo4j_results, report, saved, file>>
        /\ UNCHANGED svars
     \/ /\ ReturnMemgraph(EmptyDict)
        /\ ReleaseThread("thr_memgraph")

\* nodes_per_second = 10000 / creation_time and the returned dict.
\* accurate, lines 145-161; resource, lines 122-143.
MemgraphRecordOf(scr, ctime, ltime, base, pid) ==
  IF scr = "accurate"
  THEN [creation_rate |-> Frac(CreateScale, ctime),
        creation_time |-> ctime,
        cpu_avg |-> base.cpu_avg,
        cpu_max |-> base.cpu_max,
        memory_avg_mb |-> base.memory_avg_mb,
        memory_max_mb |-> base.memory_max_mb,
        environment |-> "Docker Container",
        process_id |-> pid]
  ELSE [creation_rate |-> Frac(CreateScale, ctime),
        lookup_rate |-> Frac(LookupScale, ltime),
        creation_time |-> ctime,
        lookup_time |-> ltime,
        cpu_avg |-> base.cpu_avg,
        cpu_max |-> base.cpu_max,
        memory_avg_gb |-> base.memory_avg_gb,
        memory_max_gb |-> base.memory_max_gb,
        disk_read_mb |-> base.disk_read_total_mb,
        disk_write_mb |-> base.disk_write_total_mb,
        environment |-> "Docker Container"]

MemgraphRecord ==
  MemgraphRecordOf(script, creation_time, lookup_time, baseline_resources, target)

MReturn ==
  /\ h_pc = "m_rates"
  /\ ReturnMemgraph(MemgraphRecord)
  /\ ReleaseThread("thr_memgraph")

\* ---------------------------------------------------------- the NenDB step
\* return from benchmark_nendb_*: run_*_comparison stores the dict.
ReturnNendb(rec) ==
  /\ nendb_results' = rec
  /\ h_pc' = "check"
  /\ ClearedLocals
  /\ UNCHANGED <<script, processes, memgraph_results, neo4j_results, report, saved, file>>

\* accurate, lines 216-227; resource, lines 203-215
NendbRecordOf(scr, itime, ltime, base) ==
  IF scr = "accurate"
  THEN [creation_rate |-> Frac(RateScale, itime),
        lookup_rate |-> Frac(RateScale, ltime),
        insert_time_ms |-> itime,
        lookup_time_ms |-> ltime,
        cpu_avg |-> base.cpu_avg,
        cpu_max |-> base.cpu_max,
        memory_avg_gb |-> base.memory_avg_gb,
        memory_max_gb |-> base.memory_max_gb,
        environment |-> "Native macOS",
        note |-> "System-wide measurement during execution"]
  ELSE [creation_rate |-> Frac(RateScale, itime),
        lookup_rate |-> Frac(RateScale, ltime),
        insert_time_ms |-> itime,
        lookup_time_ms |-> ltime,
        cpu_avg |-> base.cpu_avg,
        cpu_max |-> base.cpu_max,
        memory_avg_gb |-> base.memory_avg_gb,
        memory_max_gb |-> base.memory_max_gb,
        disk_read_mb |-> base.disk_read_total_mb,
        disk_write_mb |-> base.disk_write_total_mb,
        environment |-> "Native macOS"]

NendbRecord == NendbRecordOf(script, insert_time, lookup_time, baseline_resources)

\* resource, line 158: baseline_resources = self.monitor_resources(10);
\* accurate, line 207: baseline_resources = self.monitor_system_resources(30)
NMonitorCall ==
  /\ h_pc \in {"n_baseline", "n_monitor"}
  /\ s_pc["main"] = "idle"
  /\ StartedSampler("main", MonitorFn("nendb"),
                    IF script = "accurate" THEN MonitorDuration ELSE BaselineDuration)
  /\ h_pc' = IF script = "accurate" THEN "n_monitor_wait" ELSE "n_baseline_wait"
  /\ UNCHANGED <<proc, script, processes, target, baseline_resources, loop_i, creation_time, insert_time,
                 lookup_time, output, memgraph_results, nendb_results, neo4j_results, report, saved, file>>

\* The call returns, or raises and the except clause returns {}.
NMonitorReturn ==
  /\ h_pc \in {"n_baseline_wait", "n_monitor_wait"}
  /\ SamplerFinished("main")
  /\ ClearedSampler("main")
  /\ IF s_pc["main"] = "raised"
     THEN ReturnNendb(EmptyDict)
     ELSE /\ baseline_resources' = s_result["main"]
          /\ h_pc' = IF script = "accurate" THEN "n_return" ELSE "n_thread"
          /\ UNCHANGED <<script, processes, target, loop_i, creation_time, insert_time,
                         lookup_time, output, memgraph_results, nendb_results, neo4j_results, report, saved, file>>
  /\ UNCHANGED proc

\* resource, lines 164-166
NStartThread ==
  /\ h_pc = "n_thread"
  /\ StartedSampler("thr_nendb", MonitorFn("nendb"), MonitorDuration)
  /\ h_pc' = "n_subprocess"
  /\ UNCHANGED <<proc, script, processes, target, baseline_resources, loop_i, creation_time, insert_time,
                 lookup_time, output, memgraph_results, nendb_results, neo4j_results, report, saved, file>>

\* subprocess.run(["zig", "build", "real-bench"], ..., check=True): returns,
\* or raises (CalledProcessError, FileNotFoundError) and the except clause
\* returns {}.
NSubprocess ==
  /\ h_pc = "n_subprocess"
  /\ \/ /\ h_pc' = IF script = "accurate" THEN "n_parse" ELSE "n_join"
        /\ UNCHANGED <<script, processes, target, baseline_resources, loop_i, creation_time, insert_time,
                       lookup_time, output, memgraph_results, nendb_results, neo4j_results, report, saved, file>>
        /\ UNCHANGED svars
     \/ /\ ReturnNendb(EmptyDict)
        /\ ReleaseThread("thr_nendb")

\* resource, line 173: monitor_thread.join()
NJoin ==
  /\ h_pc = "n_join"
  /\ Join("thr_nendb")
  /\ h_pc' = "n_parse"
  /\ UNCHANGED <<script, processes, target, baseline_resources, loop_i, creation_time, insert_time,
                 lookup_time, output, memgraph_results, nendb_results, neo4j_results, report, saved, file>>
  /\ UNCHANGED svars

\* output = result.stdout; the parse loop; the fallback; the two rates.  The
\* accurate script then monitors the system; the resource script has its
\* baseline already and returns the dict.
NParse ==
  /\ h_pc = "n_parse"
  /\ \E out \in Outputs :
       LET t == Fallback(ParseOutput(out))
       IN IF RatesRaise(t)
          THEN /\ ReturnNendb(EmptyDict)
               /\ ReleaseThread("thr_nendb")
          ELSE IF script = "accurate"
               THEN /\ output' = out
                    /\ insert_time' = t[1]
                    /\ lookup_time' = t[2]
                    /\ h_pc' = "n_monitor"
                    /\ UNCHANGED <<script, processes, target, baseline_resources, loop_i, creation_time,
                                   memgraph_results, nendb_results, neo4j_results, report, saved, file>>
                    /\ UNCHANGED svars
               ELSE /\ ReturnNendb(NendbRecordOf(script, t[1], t[2], baseline_resources))
                    /\ ReleaseThread("thr_nendb")

\* accurate, lines 209-227: the dict is returned.
NReturn ==
  /\ h_pc = "n_return"
  /\ ReturnNendb(NendbRecord)
  /\ UNCHANGED svars

\* ---------------------------------------------------------------- reports
\* float('inf')
Inf == [inf |-> TRUE]
Zero == Frac(0, 1)
FracDiv(a, b) == Frac(a.num * b.den, a.den * b.num)
IsZero(a) == a # Inf /\ a.num = 0
\* 1 / x raises ZeroDivisionError for x = 0.0 and is 0.0 for x = inf.
Reciprocal(x) == IF x = Inf THEN Zero ELSE Frac(x.den, x.num)

\* The comparison of one metric: which side the score credits.
HigherWinsOrTies(self, other) == FracLeq(other, self)
HigherWins(self, other) == FracLess(other, self)
LowerWins(self, other) == FracLess(self, other)
Credit(won) == IF won THEN 1 ELSE 0

\* total_score = 0, then one "if <condition>: total_score += 1" per entry
RECURSIVE TotalScore(_)
TotalScore(conditions) ==
  IF conditions = <<>> THEN 0
  ELSE Credit(Head(conditions)) + TotalScore(Tail(conditions))

\* accurate, line 306: a dict that holds memory_avg_mb was measured on the
\* process, any other on the whole system.
Scope(rec) == IF "memory_avg_mb" \in DOMAIN rec THEN "process" ELSE "system"

\* accurate, generate_accurate_report, lines 282-326: the ratio and the lines
\* printed under ANALYSIS.
AccurateReportNoCaveat(m, n) ==
  [performance_ratio |-> FracDiv(n.creation_rate, m.creation_rate),
   cpu_labels |-> <<"system", "process">>,
   memory_unit |-> IF Scope(m) = "process" THEN "MB (process)" ELSE "GB (system)",
   caveats |-> <<>>]

AccurateReport(m, n) ==
  [performance_ratio |-> FracDiv(n.creation_rate, m.creation_rate),
   cpu_labels |-> <<"system", "process">>,
   memory_unit |-> IF Scope(m) = "process" THEN "MB (process)" ELSE "GB (system)",
   caveats |-> <<"Resource measurement methods differ",
                 "Process-specific vs system-wide measurements",
                 "Results may not be directly comparable">>]

\* The ratio reported for a metric where higher is better (throughput):
\* resource, line 253; final_fair_comparison, line 201.
HigherIsBetterRatio(self, other) == FracDiv(self, other)

\* the quotient taken the other way round: this side's own figure on top
OwnOverOther(self, other) == FracDiv(self, other)

\* The ratio reported for a metric where lower is better (latency, memory,
\* CPU): resource, lines 266 and 283; final_fair_comparison, lines 171, 182.
LowerIsBetterRatio(self, other) == FracDiv(other, self)

\* resource, lines 297-298 and 311-312: operations per second per unit of CPU
\* (of memory), 0 when the divisor is 0
PerUnit(rate, used) == IF ~IsZero(used) THEN FracDiv(rate, used) ELSE Zero

\* resource, lines 342-350: the conditions that each add one to score
ResourceConditions(m, n) ==
  <<HigherWins(n.creation_rate, m.creation_rate),
    LowerWins(n.cpu_avg, m.cpu_avg),
    LowerWins(n.memory_avg_gb, m.memory_avg_gb),
    HigherWins(PerUnit(n.creation_rate, n.cpu_avg), PerUnit(m.creation_rate, m.cpu_avg)),
    HigherWins(PerUnit(n.creation_rate, n.memory_avg_gb),
               PerUnit(m.creation_rate, m.memory_avg_gb)),
    (n.disk_read_mb + n.disk_write_mb) < (m.disk_read_mb + m.disk_write_mb)>>

\* resource, generate_resource_report, lines 241-385.  The values it computes
\* in order; the report raises ZeroDivisionError at the first division by 0.
ResourceReport(m, n) ==
  LET nendb_create == n.creation_rate
      memgraph_create == m.creation_rate
      performance_ratio == HigherIsBetterRatio(nendb_create, memgraph_create)
      nendb_cpu == n.cpu_avg
      memgraph_cpu == m.cpu_avg
      cpu_efficiency == IF ~IsZero(nendb_cpu)
                        THEN LowerIsBetterRatio(nendb_cpu, memgraph_cpu) ELSE Inf
      cpu_raises == ~LowerWins(nendb_cpu, memgraph_cpu) /\ IsZero(cpu_efficiency)
      cpu_printed == IF LowerWins(nendb_cpu, memgraph_cpu)
                     THEN cpu_efficiency ELSE Reciprocal(cpu_efficiency)
      nendb_mem == n.memory_avg_gb
      memgraph_mem == m.memory_avg_gb
      memory_efficiency == IF ~IsZero(nendb_mem)
                           THEN LowerIsBetterRatio(nendb_mem, memgraph_mem) ELSE Inf
      mem_raises == ~LowerWins(nendb_mem, memgraph_mem) /\ IsZero(memory_efficiency)
      mem_printed == IF LowerWins(nendb_mem, memgraph_mem)
                     THEN memory_efficiency ELSE Reciprocal(memory_efficiency)
      nendb_cpu_efficiency == PerUnit(nendb_create, nendb_cpu)
      memgraph_cpu_efficiency == PerUnit(memgraph_create, memgraph_cpu)
      cpu_ratio_raises == HigherWins(nendb_cpu_efficiency, memgraph_cpu_efficiency)
                            /\ IsZero(memgraph_cpu_efficiency)
      nendb_mem_efficiency == PerUnit(nendb_create, nendb_mem)
      memgraph_mem_efficiency == PerUnit(memgraph_create, memgraph_mem)
      mem_ratio_raises == HigherWins(nendb_mem_efficiency, memgraph_mem_efficiency)
                            /\ IsZero(memgraph_mem_efficiency)
      score == TotalScore(ResourceConditions(m, n))
  IN IF cpu_raises \/ mem_raises \/ cpu_ratio_raises \/ mem_ratio_raises
     THEN [raised |-> "ZeroDivisionError"]
     ELSE [performance_ratio |-> performance_ratio,
           cpu_efficiency |-> cpu_efficiency,
           cpu_printed |-> cpu_printed,
           memory_efficiency |-> memory_efficiency,
           memory_printed |-> mem_printed,
           nendb_cpu_efficiency |-> nendb_cpu_efficiency,
           memgraph_cpu_efficiency |-> memgraph_cpu_efficiency,
           nendb_mem_efficiency |-> nendb_mem_efficiency,
           memgraph_mem_efficiency |-> memgraph_mem_efficiency,
           score |-> score,
           max_score |-> ResourceMaxScore,
           findings |->
             (IF LowerWins(nendb_cpu, memgraph_cpu) THEN <<cpu_efficiency>> ELSE <<>>)
               \o (IF LowerWins(nendb_mem, memgraph_mem) THEN <<memory_efficiency>> ELSE <<>>)]

\* final_fair_comparison, lines 229-233: the conditions that each add one
FinalConditions(m, n) ==
  <<n.single_create_ms < m.single_create_ms,
    n.batch_create_ms < m.batch_create_ms,
    HigherWins(n.single_create_rate, m.single_create_rate),
    n.memory_per_node < m.memory_per_node>>

\* final_fair_comparison, generate_final_report, lines 169-236
FinalReport(m, n) ==
  LET nendb_single == n.single_create_ms
      memgraph_single == m.single_create_ms
      nendb_batch == n.batch_create_ms
      memgraph_batch == m.batch_create_ms
      nendb_tp == n.single_create_rate
      memgraph_tp == m.single_create_rate
      nendb_mem == n.memory_per_node
      memgraph_mem == m.memory_per_node
  IN [speedup |-> LowerIsBetterRatio(Frac(nendb_single, 1), Frac(memgraph_single, 1)),
      batch_speedup |-> LowerIsBetterRatio(Frac(nendb_batch, 1), Frac(memgraph_batch, 1)),
      throughput_ratio |-> IF HigherWins(nendb_tp, memgraph_tp)
                           THEN HigherIsBetterRatio(nendb_tp, memgraph_tp)
                           ELSE HigherIsBetterRatio(memgraph_tp, nendb_tp),
      score |-> TotalScore(FinalConditions(m, n)),
      max_score |-> FinalMaxScore]

\* The throughput line without its label: the factor alone, as if it were
\* always NenDB's.
ThroughputComparisonUnlabelled(self, other) ==
  IF HigherWins(self, other)
  THEN [leader |-> "self", factor |-> FracDiv(self, other)]
  ELSE [leader |-> "self", factor |-> FracDiv(other, self)]

\* fair_benchmark, lines 234-239; real_memgraph_benchmark, lines 240-245: the
\* throughput line names the side with the higher rate and prints that
\* side's rate over the other's.
ThroughputComparison(self, other) ==
  IF HigherWins(self, other)
  THEN [leader |-> "self", factor |-> FracDiv(self, other)]
  ELSE [leader |-> "other", factor |-> FracDiv(other, self)]

\* the metric comparisons alone, without the qualitative flags
FairConditionsNoFlags(m, n) ==
  <<n.single_create_ms < m.single_create_ms,
    n.batch_create_ms < m.batch_create_ms,
    HigherWins(n.single_create_rate, m.single_create_rate),
    n.memory_per_node < m.memory_per_node>>

\* fair_benchmark, lines 262-268: the conditions that each add one
FairConditions(m, n) ==
  <<n.single_create_ms < m.single_create_ms,
    n.batch_create_ms < m.batch_create_ms,
    HigherWins(n.single_create_rate, m.single_create_rate),
    n.memory_per_node < m.memory_per_node,
    n.zero_fragmentation,
    n.predictable_performance>>

\* fair_benchmark, generate_fair_report, lines 191-271
FairReport(m, n) ==
  LET nendb_single_create == n.single_create_ms
      memgraph_single_create == m.single_create_ms
      nendb_batch_create == n.batch_create_ms
      memgraph_batch_create == m.batch_create_ms
      nendb_tp == n.single_create_rate
      memgraph_tp == m.single_create_rate
      nendb_mem == n.memory_per_node
      memgraph_mem == m.memory_per_node
  IN [single_ratio |-> IF nendb_single_create < memgraph_single_create
                       THEN Frac(memgraph_single_create, nendb_single_create)
                       ELSE Frac(nendb_single_create, memgraph_single_create),
      batch_ratio |-> IF nendb_batch_create < memgraph_batch_create
                      THEN Frac(memgraph_batch_create, nendb_batch_create)
                      ELSE Frac(nendb_batch_create, memgraph_batch_create),
      throughput_ratio |-> ThroughputComparison(nendb_tp, memgraph_tp).factor,
      throughput_leader |-> ThroughputComparison(nendb_tp, memgraph_tp).leader,
      score |-> TotalScore(FairConditions(m, n)),
      max_score |-> FairMaxScore]

\* real_memgraph_benchmark, lines 290-296: the conditions that each add one
RealConditions(m, n) ==
  <<n.node_creation_ms < m.node_creation_ms,
    n.node_lookup_ms < m.node_lookup_ms,
    HigherWins(n.node_creation_rate, m.node_creation_rate),
    n.memory_per_node < m.memory_per_node,
    n.zero_fragmentation,
    n.predictable_performance>>

\* real_memgraph_benchmark, generate_comparison_report, lines 189-310
RealReport(m, n) ==
  LET nendb_insert == n.node_creation_ms
      memgraph_insert == m.node_creation_ms
      nendb_lookup == n.node_lookup_ms
      memgraph_lookup == m.node_lookup_ms
      nendb_tp == n.node_creation_rate
      memgraph_tp == m.node_creation_rate
  IN [insert_ratio |-> IF nendb_insert < memgraph_insert
                       THEN Frac(memgraph_insert, nendb_insert)
                       ELSE Frac(nendb_insert, memgraph_insert),
      lookup_ratio |-> IF nendb_lookup < memgraph_lookup
                       THEN Frac(memgraph_lookup, nendb_lookup)
                       ELSE Frac(nendb_lookup, memgraph_lookup),
      throughput_ratio |-> ThroughputComparison(nendb_tp, memgraph_tp).factor,
      throughput_leader |-> ThroughputComparison(nendb_tp, memgraph_tp).leader,
      score |-> TotalScore(RealConditions(m, n)),
      max_score |-> RealMaxScore]

\* competitive_benchmark, lines 241-248: the conditions that each add one
CompetitiveConditions(m, n, x) ==
  <<n.memory_per_node < x.memory_per_node,
    n.memory_per_node < m.memory_per_node,
    n.insert_latency_ms < x.insert_latency_ms,
    n.insert_latency_ms < m.insert_latency_ms,
    n.throughput_ops_per_sec > x.throughput_ops_per_sec,
    n.throughput_ops_per_sec > m.throughput_ops_per_sec,
    n.zero_fragmentation,
    n.predictable_performance>>

\* competitive_benchmark, generate_report, lines 154-277: it returns early,
\* printing no analysis, unless all three result dicts are non-empty.
CompetitiveReport(m, n, x) ==
  IF IsEmptyDict(n) \/ IsEmptyDict(x) \/ IsEmptyDict(m)
  THEN [incomplete |-> TRUE]
  ELSE [score |-> TotalScore(CompetitiveConditions(m, n, x)),
        max_score |-> CompetitiveMaxScore]

Report(scr, m, n) ==
  CASE scr = "accurate" -> AccurateReport(m, n)
    [] scr = "resource" -> ResourceReport(m, n)
    [] scr = "final" -> FinalReport(m, n)
    [] scr = "fair" -> FairReport(m, n)
    [] scr = "real" -> RealReport(m, n)

\* The scoring conditions the report of each script evaluates.
Conditions(scr, m, n, x) ==
  CASE scr = "resource" -> ResourceConditions(m, n)
    [] scr = "final" -> FinalConditions(m, n)
    [] scr = "fair" -> FairConditions(m, n)
    [] scr = "real" -> RealConditions(m, n)
    [] scr = "competitive" -> CompetitiveConditions(m, n, x)

\* save_*_results: the document json.dump writes.
Document(scr, m, n) ==
  CASE scr = "accurate" ->
         [memgraph |-> m, nendb |-> n,
          benchmark_type |-> "Accurate process-specific resource measurement",
          note |-> "Different measurement methods for different environments"]
    [] scr = "resource" ->
         [memgraph |-> m, nendb |-> n,
          benchmark_type |-> "Resource usage comparison",
          test_environment |-> "Docker Memgraph vs Native NenDB"]
    [] scr = "final" ->
         [memgraph |-> m, nendb |-> n,
          comparison_type |-> "Docker Memgraph vs Native NenDB",
          environment_note |-> "Different environments may affect performance comparison"]
    [] scr = "fair" ->
         [memgraph |-> m, nendb |-> n,
          test_environment |-> "macOS native, fair methodology",
          methodology |-> "Single operations + batch operations, same test data"]
    [] scr = "real" ->
         [memgraph |-> m, nendb |-> n,
          test_environment |-> "macOS with Docker containers"]

\* ------------------------------------------- the records of final and fair
\* final_fair_comparison, test_memgraph_docker, lines 71-78
FinalMemgraphRecord(avg_single_create, avg_batch_create) ==
  [single_create_ms |-> avg_single_create,
   batch_create_ms |-> avg_batch_create,
   single_create_rate |-> Frac(RateScale, avg_single_create),
   batch_create_rate |-> Frac(RateScale, avg_batch_create),
   environment |-> "Docker Container",
   memory_per_node |-> MemgraphBytesPerNode]

\* final_fair_comparison, test_nendb_native, lines 117-124
FinalNendbRecord(itime) ==
  [single_create_ms |-> itime,
   batch_create_ms |-> itime,
   single_create_rate |-> Frac(RateScale, itime),
   batch_create_rate |-> Frac(RateScale, itime),
   environment |-> "Native macOS",
   memory_per_node |-> NendbBytesPerNode]

\* fair_benchmark, benchmark_memgraph_fair, lines 93-105
FairMemgraphRecord(avg_single_create, avg_single_lookup, avg_batch_create, avg_batch_lookup) ==
  [single_create_ms |-> avg_single_create,
   single_lookup_ms |-> avg_single_lookup,
   batch_create_ms |-> avg_batch_create,
   batch_lookup_ms |-> avg_batch_lookup,
   single_create_rate |-> Frac(RateScale, avg_single_create),
   single_lookup_rate |-> Frac(RateScale, avg_single_lookup),
   batch_create_rate |-> Frac(RateScale, avg_batch_create),
   batch_lookup_rate |-> Frac(RateScale, avg_batch_lookup),
   memory_per_node |-> MemgraphBytesPerNode,
   zero_fragmentation |-> FALSE,
   predictable_performance |-> FALSE]

\* fair_benchmark, benchmark_nendb_fair, lines 145-157
FairNendbRecord(itime, ltime) ==
  [single_create_ms |-> itime,
   single_lookup_ms |-> ltime,
   batch_create_ms |-> itime,
   batch_lookup_ms |-> ltime,
   single_create_rate |-> Frac(RateScale, itime),
   single_lookup_rate |-> Frac(RateScale, ltime),
   batch_create_rate |-> Frac(RateScale, itime),
   batch_lookup_rate |-> Frac(RateScale, ltime),
   memory_per_node |-> NendbBytesPerNode,
   zero_fragmentation |-> TRUE,
   predictable_performance |-> TRUE]

\* real_memgraph_benchmark, lines 144-148: all three timings are replaced
\* when any of them is missing.
RealFallback(t, wal_time) ==
  IF t[1] = None \/ t[2] = None \/ wal_time = None
  THEN <<FairFallbackInsert, FairFallbackLookup>> ELSE t

\* real_memgraph_benchmark, benchmark_memgraph, lines 96-111: each loop issues
\* 1000 operations, so the seconds a loop took are the milliseconds per
\* operation, and the rate is 1000 / seconds.
RealMemgraphRecord(node_creation_time, node_lookup_time, rel_creation_time) ==
  [node_creation_ms |-> node_creation_time,
   node_lookup_ms |-> node_lookup_time,
   relationship_creation_ms |-> rel_creation_time,
   node_creation_rate |-> Frac(RateScale, node_creation_time),
   node_lookup_rate |-> Frac(RateScale, node_lookup_time),
   relationship_creation_rate |-> Frac(RateScale, rel_creation_time),
   memory_per_node |-> MemgraphBytesPerNode,
   zero_fragmentation |-> FALSE,
   predictable_performance |-> FALSE]

\* a record whose two design flags are not set
RealNendbRecordNoFlags(itime, ltime) ==
  [node_creation_ms |-> itime,
   node_lookup_ms |-> ltime,
   relationship_creation_ms |-> itime,
   node_creation_rate |-> Frac(RateScale * 1000, itime),
   node_lookup_rate |-> Frac(RateScale * 1000, ltime),
   relationship_creation_rate |-> Frac(RateScale * 1000, itime),
   memory_per_node |-> NendbBytesPerNode,
   zero_fragmentation |-> FALSE,
   predictable_performance |-> FALSE]

\* real_memgraph_benchmark, benchmark_nendb, lines 155-165: the rates are
\* 1000 / (insert_time / 1000), a thousand times 1000 / insert_time.
RealNendbRecord(itime, ltime) ==
  [node_creation_ms |-> itime,
   node_lookup_ms |-> ltime,
   relationship_creation_ms |-> itime,
   node_creation_rate |-> Frac(RateScale * 1000, itime),
   node_lookup_rate |-> Frac(RateScale * 1000, ltime),
   relationship_creation_rate |-> Frac(RateScale * 1000, itime),
   memory_per_node |-> NendbBytesPerNode,
   zero_fragmentation |-> TRUE,
   predictable_performance |-> TRUE]

\* competitive_benchmark, run_nendb_benchmarks, lines 32-41 (latencies in
\* units of 0.0001 ms)
CompetitiveNendbRecord ==
  [memory_per_node |-> NendbBytesPerNode,
   memory_per_edge |-> 80,
   insert_latency_ms |-> 10,
   lookup_latency_ms |-> 1,
   throughput_ops_per_sec |-> 1000000,
   memory_footprint_mb |-> 512,
   zero_fragmentation |-> TRUE,
   predictable_performance |-> TRUE]

\* competitive_benchmark, run_neo4j_benchmarks, lines 53-76
CompetitiveNeo4jRecord ==
  [memory_per_node |-> 250,
   memory_per_edge |-> 120,
   insert_latency_ms |-> 2000,
   lookup_latency_ms |-> 200,
   throughput_ops_per_sec |-> 5000,
   memory_footprint_mb |-> 1024,
   zero_fragmentation |-> FALSE,
   predictable_performance |-> FALSE]

\* competitive_benchmark, run_memgraph_benchmarks, lines 89-112
CompetitiveMemgraphRecord ==
  [memory_per_node |-> MemgraphBytesPerNode,
   memory_per_edge |-> 100,
   insert_latency_ms |-> 1000,
   lookup_latency_ms |-> 100,
   throughput_ops_per_sec |-> 10000,
   memory_footprint_mb |-> 768,
   zero_fragmentation |-> FALSE,
   predictable_performance |-> FALSE]

\* ------------------------------------------------- compare, report, save
\* run_*_comparison: if not self.memgraph_results or not self.nendb_results: return
\* a test that lets the comparison go on with one side missing
IncompleteBoth(m, n) == IsEmptyDict(m) /\ IsEmptyDict(n)

\* not self.memgraph_results or not self.nendb_results
Incomplete(m, n) == IsEmptyDict(m) \/ IsEmptyDict(n)

Compare ==
  /\ h_pc = "check"
  /\ h_pc' = IF Incomplete(memgraph_results, nendb_results) THEN "end" ELSE "report"
  /\ UNCHANGED <<script, processes, target, baseline_resources, loop_i, creation_time, insert_time,
                 lookup_time, output, memgraph_results, nendb_results, neo4j_results, report, saved, file>>
  /\ UNCHANGED svars

\* generate_*_report; an exception it raises is caught in main, and nothing
\* is saved.
GenerateReport ==
  /\ h_pc = "report"
  /\ report' = IF script = "competitive"
                THEN CompetitiveReport(memgraph_results, nendb_results, neo4j_results)
                ELSE Report(script, memgraph_results, nendb_results)
  /\ h_pc' = IF "raised" \in DOMAIN report' THEN "end" ELSE "save"
  /\ UNCHANGED <<script, processes, target, baseline_resources, loop_i, creation_time, insert_time,
                 lookup_time, output, memgraph_results, nendb_results, neo4j_results, saved, file>>
  /\ UNCHANGED svars

\* The keys of the results dict in the order the dict literal gives them,
\* which is the order json.dump writes them in.
DocumentKeys(scr) ==
  CASE scr = "accurate" -> <<"memgraph", "nendb", "benchmark_type", "note">>
    [] scr = "resource" -> <<"memgraph", "nendb", "benchmark_type", "test_environment">>
    [] scr = "final" -> <<"memgraph", "nendb", "comparison_type", "environment_note">>
    [] scr = "fair" -> <<"memgraph", "nendb", "test_environment", "methodology">>
    [] scr = "real" -> <<"memgraph", "nendb", "test_environment">>
    [] scr = "competitive" -> <<"nendb", "neo4j", "memgraph">>

\* The dict save_*_results hands to json.dump; competitive_benchmark dumps
\* self.results, which run_all_benchmarks filled.
ResultsDict ==
  IF script = "competitive"
  THEN [nendb |-> nendb_results, neo4j |-> neo4j_results, memgraph |-> memgraph_results]
  ELSE Document(script, memgraph_results, nendb_results)

\* json.dump(results, f, indent=2) writes the document to f chunk by chunk:
\* the opening brace, each key with its value, the closing brace.
Encode(scr, doc) ==
  LET keys == DocumentKeys(scr)
  IN <<[tok |-> "{"]>>
     \o [k \in 1..Len(keys) |-> [tok |-> "item", key |-> keys[k], value |-> doc[keys[k]]]]
     \o <<[tok |-> "}"]>>

\* What json.load makes of a file: the document, or nothing when the text is
\* not one whole JSON value.
RECURSIVE ItemsFrom(_, _)
ItemsFrom(chunks, k) ==
  IF k >= Len(chunks) THEN EmptyDict
  ELSE [key \in {chunks[k].key} |-> chunks[k].value] @@ ItemsFrom(chunks, k + 1)

WellFormed(chunks) ==
  /\ Len(chunks) >= 2
  /\ chunks[1].tok = "{"
  /\ chunks[Len(chunks)].tok = "}"
  /\ \A k \in 2..(Len(chunks) - 1) : chunks[k].tok = "item"

Decode(chunks) == IF WellFormed(chunks) THEN ItemsFrom(chunks, 2) ELSE EmptyDict

\* save_*_results run to its end without interruption: open(filename, 'w')
\* creates or truncates the file, json.dump writes every chunk, the with
\* block closes the file.
SaveResults ==
  /\ h_pc = "save"
  /\ saved' = ResultsDict
  /\ file' = [exists |-> TRUE, chunks |-> Encode(script, ResultsDict)]
  /\ h_pc' = "end"
  /\ UNCHANGED <<script, processes, target, baseline_resources, loop_i, creation_time, insert_time,
                 lookup_time, output, memgraph_results, nendb_results, neo4j_results, report>>
  /\ UNCHANGED svars

\* The same function step by step, as an interrupt finds it.
\* with open(filename, 'w') as f: the file exists and is empty.
OpenResultsFile ==
  /\ h_pc = "save"
  /\ file' = [exists |-> TRUE, chunks |-> <<>>]
  /\ h_pc' = "dump"
  /\ UNCHANGED <<script, processes, target, baseline_resources, loop_i, creation_time, insert_time,
                 lookup_time, output, memgraph_results, nendb_results, neo4j_results, report, saved>>
  /\ UNCHANGED svars

\* json.dump: for chunk in iterable: fp.write(chunk)
WriteChunk ==
  /\ h_pc = "dump"
  /\ Len(file.chunks) < Len(Encode(script, ResultsDict))
  /\ file' = [file EXCEPT !.chunks = Append(@, Encode(script, ResultsDict)[Len(@) + 1])]
  /\ UNCHANGED <<script, processes, h_pc, target, baseline_resources, loop_i, creation_time, insert_time,
                 lookup_time, output, memgraph_results, nendb_results, neo4j_results, report, saved>>
  /\ UNCHANGED svars

\* The with block is left: the file is closed, save_*_results returns.
CloseResultsFile ==
  /\ h_pc = "dump"
  /\ Len(file.chunks) = Len(Encode(script, ResultsDict))
  /\ saved' = Decode(file.chunks)
  /\ h_pc' = "end"
  /\ UNCHANGED <<script, processes, target, baseline_resources, loop_i, creation_time, insert_time,
                 lookup_time, output, memgraph_results, nendb_results, neo4j_results, report, file>>
  /\ UNCHANGED svars

\* main: except KeyboardInterrupt.  The interrupt is raised in the main
\* thread wherever it stands; the with block closes the file on the way out
\* with what was written to it, and main prints a message and returns.
KeyboardInterrupt ==
  /\ h_pc \notin {"end", "interrupted"}
  /\ h_pc' = "interrupted"
  /\ UNCHANGED <<script, processes, target, baseline_resources, loop_i, creation_time, insert_time,
                 lookup_time, output, memgraph_results, nendb_results, neo4j_results, report, saved,
                 file>>
  /\ UNCHANGED svars

\* ------------------------------------------------------ the whole harness
\* main() of accurate_resource_benchmark.py or of resource_benchmark.py.
Init ==
  /\ InitSamplers
  /\ script \in {"accurate", "resource"}
  /\ h_pc = IF script = "accurate" THEN "m_find" ELSE "m_connect"
  /\ processes = <<>>
  /\ target = None
  /\ baseline_resources = EmptyDict
  /\ loop_i = 0
  /\ creation_time = None
  /\ insert_time = None
  /\ lookup_time = None
  /\ output = <<>>
  /\ memgraph_results = EmptyDict
  /\ nendb_results = EmptyDict
  /\ neo4j_results = EmptyDict
  /\ report = EmptyDict
  /\ saved = EmptyDict
  /\ file = NoFile

SamplerStep(id) ==
  \/ LoopCheck(id)
  \/ ReadCpu(id)
  \/ ReadMem(id)
  \/ ReadDisk(id)
  \/ Sleep(id)
  \/ Aggregate(id)

\* The statements of benchmark_memgraph_* and of benchmark_nendb_* that the
\* main thread runs itself.
MemgraphStep ==
  \/ MFindProcess
  \/ MConnect
  \/ MBaselineCall
  \/ MBaselineReturn
  \/ MStartThread
  \/ MWorkload
  \/ MJoin
  \/ MLookups
  \/ MCleanup
  \/ MReturn

NendbStep ==
  \/ NMonitorCall
  \/ NMonitorReturn
  \/ NStartThread
  \/ NSubprocess
  \/ NJoin
  \/ NParse
  \/ NReturn

Next ==
  \/ MemgraphStep
  \/ NendbStep
  \/ Compare
  \/ GenerateReport
  \/ SaveResults
  \/ \E id \in SamplerIds : SamplerStep(id)
  \/ ProcessExits
  \/ AccessRevoked

Spec == Init /\ [][Next]_vars

\* ------------------------------------------ the memgraph step, scheduled
\* benchmark_memgraph_* from its call to its return, under a scheduler that
\* lets every thread that can take a step take one eventually: the main
\* thread (which also runs the synchronous monitor call) and the monitor
\* thread.  A blocking call (cpu_percent, sleep, a query) returns; whether
\* and when the sampled process exits is left open.
MemgraphStepReturned == h_pc \in {"n_subprocess", "n_baseline"}

NextMemgraph ==
  \/ MemgraphStep
  \/ SamplerStep("main")
  \/ SamplerStep("thr_memgraph")
  \/ ProcessExits
  \/ AccessRevoked

SpecMemgraph ==
  /\ Init
  /\ [][NextMemgraph]_vars
  /\ WF_vars(MemgraphStep \/ SamplerStep("main"))
  /\ WF_vars(SamplerStep("thr_memgraph"))

\* ------------------------------------------- a report generator on its own
\* The sample lists a monitor may have gathered, and the aggregates of them.
SampleLists(values) == UNION {[1..n -> values] : n \in 1..ReportSamples}
DiskLists == {<<>>} \cup SampleLists((0..MaxDisk) \X (0..MaxDisk))
ProcessStats ==
  {AggregateProcess(cpu, mem) :
     cpu \in SampleLists(0..MaxCpu), mem \in SampleLists(1..MaxReportMem)}
SystemStats ==
  {AggregateSystem(cpu, mem) :
     cpu \in SampleLists(0..MaxCpu), mem \in SampleLists(1..MaxReportMem)}
ResourceStats ==
  {AggregateResources(cpu, mem, dio) :
     cpu \in SampleLists(0..MaxCpu), mem \in SampleLists(1..MaxReportMem), dio \in DiskLists}

\* The seconds a loop of 1000 operations takes in real_memgraph_benchmark.
RealWorkTimes == (1..MaxTime) \cup {RateScale}

\* The result dicts each script's steps can return: a record, or {} when the
\* step failed.  run_all_benchmarks of competitive_benchmark goes straight to
\* generate_report; the other scripts check the results first.
InitReport ==
  /\ InitSamplers
  /\ script \in {"accurate", "resource", "final", "fair", "real", "competitive"}
  /\ h_pc = IF script = "competitive" THEN "report" ELSE "check"
  /\ processes = <<>>
  /\ target = None
  /\ baseline_resources = EmptyDict
  /\ loop_i = 0
  /\ creation_time = None
  /\ insert_time = None
  /\ lookup_time = None
  /\ output = <<>>
  /\ report = EmptyDict
  /\ saved = EmptyDict
  /\ file = NoFile
  /\ CASE script = "accurate" ->
            /\ \/ memgraph_results = EmptyDict
               \/ \E ctime \in WorkTimes, base \in ProcessStats, pid \in 1..MaxProcs :
                    memgraph_results = MemgraphRecordOf("accurate", ctime, None, base, pid)
            /\ \/ nendb_results = EmptyDict
               \/ \E itime \in TimeValues, ltime \in TimeValues, base \in SystemStats :
                    nendb_results = NendbRecordOf("accurate", itime, ltime, base)
            /\ neo4j_results = EmptyDict
       [] script = "resource" ->
            /\ \/ memgraph_results = EmptyDict
               \/ \E ctime \in WorkTimes, ltime \in TimeValues, base \in ResourceStats :
                    memgraph_results = MemgraphRecordOf("resource", ctime, ltime, base, None)
            /\ \/ nendb_results = EmptyDict
               \/ \E itime \in TimeValues, ltime \in TimeValues, base \in ResourceStats :
                    nendb_results = NendbRecordOf("resource", itime, ltime, base)
            /\ neo4j_results = EmptyDict
       [] script = "final" ->
            /\ \/ memgraph_results = EmptyDict
               \/ \E s \in TimeValues, b \in TimeValues :
                    memgraph_results = FinalMemgraphRecord(s, b)
            /\ \/ nendb_results = EmptyDict
               \/ \E out \in Outputs :
                    nendb_results = FinalNendbRecord(FallbackBoth(ParseOutput(out))[1])
            /\ neo4j_results = EmptyDict
       [] script = "fair" ->
            /\ \/ memgraph_results = EmptyDict
               \/ \E s \in TimeValues, sl \in TimeValues, b \in TimeValues, bl \in TimeValues :
                    memgraph_results = FairMemgraphRecord(s, sl, b, bl)
            /\ \/ nendb_results = EmptyDict
               \/ \E out \in Outputs :
                    LET t == FairFallback(ParseOutput(out))
                    IN nendb_results = FairNendbRecord(t[1], t[2])
            /\ neo4j_results = EmptyDict
       [] script = "real" ->
            /\ \/ memgraph_results = EmptyDict
               \/ \E c \in RealWorkTimes, l \in RealWorkTimes, r \in RealWorkTimes :
                    memgraph_results = RealMemgraphRecord(c, l, r)
            /\ \/ nendb_results = EmptyDict
               \/ \E out \in Outputs, wal_time \in {None} \cup (1..MaxTime) :
                    LET t == RealFallback(ParseOutput(out), wal_time)
                    IN nendb_results = RealNendbRecord(t[1], t[2])
            /\ neo4j_results = EmptyDict
       [] script = "competitive" ->
            /\ nendb_results \in {EmptyDict, CompetitiveNendbRecord}
            /\ neo4j_results \in {EmptyDict, CompetitiveNeo4jRecord}
            /\ memgraph_results \in {EmptyDict, CompetitiveMemgraphRecord}

NextReport ==
  \/ Compare
  \/ GenerateReport
  \/ SaveResults

SpecReport == InitReport /\ [][NextReport]_vars

\* ------------------------------------ the end of a run, with an interrupt
\* The end of main from the check of the two result dicts on, the save taken
\* step by step, and a keyboard interrupt that may arrive at any of them.
NextInterrupt ==
  \/ Compare
  \/ GenerateReport
  \/ OpenResultsFile
  \/ WriteChunk
  \/ CloseResultsFile
  \/ KeyboardInterrupt

SpecInterrupt == InitReport /\ [][NextInterrupt]_vars

\* ------------------------------------------ the NenDB record on its own
\* benchmark_nendb_* of each script from the output of the workload
\* subprocess on: the timings parsed or replaced, and the record returned.
\* real_memgraph_benchmark also looks for a WAL line (wal_time).
ParsedTimings(scr, out, wal_time) ==
  CASE scr \in {"accurate", "resource"} -> Fallback(ParseOutput(out))
    [] scr = "final" -> FallbackBoth(ParseOutput(out))
    [] scr = "fair" -> FairFallback(ParseOutput(out))
    [] scr = "real" -> RealFallback(ParseOutput(out), wal_time)

NendbRecordFor(scr, t, base) ==
  CASE scr \in {"accurate", "resource"} -> NendbRecordOf(scr, t[1], t[2], base)
    [] scr = "final" -> FinalNendbRecord(t[1])
    [] scr = "fair" -> FairNendbRecord(t[1], t[2])
    [] scr = "real" -> RealNendbRecord(t[1], t[2])

InitParse ==
  /\ InitSamplers
  /\ script \in {"accurate", "resource", "final", "fair", "real"}
  /\ h_pc = "n_parse"
  /\ processes = <<>>
  /\ target = None
  /\ baseline_resources \in (IF script = "accurate" THEN SystemStats
                              ELSE IF script = "resource" THEN ResourceStats
                              ELSE {EmptyDict})
  /\ loop_i = 0
  /\ creation_time = None
  /\ insert_time = None
  /\ lookup_time = None
  /\ output \in Outputs
  /\ memgraph_results = EmptyDict
  /\ nendb_results = EmptyDict
  /\ neo4j_results = EmptyDict
  /\ report = EmptyDict
  /\ saved = EmptyDict
  /\ file = NoFile

\* The parse loop, the fallback and the rates; 1000 / None raises TypeError,
\* which accurate and resource catch (return {}).
ParseTimings ==
  /\ h_pc = "n_parse"
  /\ \E wal_time \in {None} \cup (1..MaxTime) :
       LET t == ParsedTimings(script, output, wal_time)
       IN IF RatesRaise(t)
          THEN /\ h_pc' = "check"
               /\ UNCHANGED <<insert_time, lookup_time>>
          ELSE /\ insert_time' = t[1]
               /\ lookup_time' = t[2]
               /\ h_pc' = "n_return"
  /\ UNCHANGED <<script, processes, target, baseline_resources, loop_i, creation_time,
                 output, memgraph_results, nendb_results, neo4j_results, report, saved, file>>
  /\ UNCHANGED svars

\* return {...}
ReturnRecord ==
  /\ h_pc = "n_return"
  /\ nendb_results' = NendbRecordFor(script, <<insert_time, lookup_time>>, baseline_resources)
  /\ h_pc' = "check"
  /\ UNCHANGED <<script, processes, target, baseline_resources, loop_i, creation_time, insert_time,
                 lookup_time, output, memgraph_results, neo4j_results, report, saved, file>>
  /\ UNCHANGED svars

NextParse ==
  \/ ParseTimings
  \/ ReturnRecord

SpecParse == InitParse /\ [][NextParse]_vars

\* --------------------------------------------------- a locator on its own
\* One call of a locator over a process list drawn from bounded sets.
InitLocator ==
  /\ InitSamplers
  /\ script = "none"
  /\ processes \in ProcLists
  /\ h_pc = "locate"
  /\ target = None
  /\ baseline_resources = EmptyDict
  /\ loop_i = 0
  /\ creation_time = None
  /\ insert_time = None
  /\ lookup_time = None
  /\ output = <<>>
  /\ memgraph_results = EmptyDict
  /\ nendb_results = EmptyDict
  /\ neo4j_results = EmptyDict
  /\ report = EmptyDict
  /\ saved = EmptyDict
  /\ file = NoFile

FindMemgraphProcess ==
  /\ h_pc = "locate"
  /\ target' = Locate(processes)
  /\ h_pc' = "found_memgraph"
  /\ UNCHANGED <<script, processes, baseline_resources, loop_i, creation_time, insert_time,
                 lookup_time, output, memgraph_results, nendb_results, neo4j_results, report, saved, file>>
  /\ UNCHANGED svars

FindNendbProcess ==
  /\ h_pc = "locate"
  /\ target' = LocateNendb(processes)
  /\ h_pc' = "found_nendb"
  /\ UNCHANGED <<script, processes, baseline_resources, loop_i, creation_time, insert_time,
                 lookup_time, output, memgraph_results, nendb_results, neo4j_results, report, saved, file>>
  /\ UNCHANGED svars

NextLocator ==
  \/ FindMemgraphProcess
  \/ FindNendbProcess

SpecLocator == InitLocator /\ [][NextLocator]_vars

\* ================================================================= claims

\* C1: in monitor_process_resources, once a per-tick read has raised
\* NoSuchProcess or AccessDenied the loop is left for good (no further tick),
\* the call returns normally (it never ends by raising) and what it returns is
\* the statistics over the readings gathered so far, or the empty dict when
\* one of the two lists holds nothing.
C1_BreakReturnsPartial ==
  \A id \in SamplerIds :
    s_stop[id] = "break" =>
      /\ s_fn[id] = "process"
      /\ s_pc[id] \in {"agg", "done"}
      /\ s_pc[id] = "done" =>
           IF cpu_usage[id] = <<>> \/ memory_usage[id] = <<>>
           THEN IsEmptyDict(s_result[id])
           ELSE /\ FracEq(s_result[id].cpu_avg, FloatMean(cpu_usage[id]))
                /\ FracEq(s_result[id].memory_avg_mb, FloatMean(memory_usage[id]))
                /\ \A i \in 1..Len(cpu_usage[id]) :
                     s_result[id].cpu_min <= cpu_usage[id][i] /\ cpu_usage[id][i] <= s_result[id].cpu_max
                /\ \A i \in 1..Len(memory_usage[id]) :
                     /\ s_result[id].memory_min_mb <= memory_usage[id][i]
                     /\ memory_usage[id][i] <= s_result[id].memory_max_mb

\* A read failed after at least one full tick, and the call returned statistics.
C1_Witness ==
  /\ s_stop["main"] = "break"
  /\ s_pc["main"] = "done"
  /\ Len(memory_usage["main"]) >= 1
  /\ ~IsEmptyDict(s_result["main"])

\* C4: a monitor call that ends with an empty sample series fails: it either
\* raises (system scope) or returns the empty dict (process scope); it never
\* returns a statistics record.
C4_EmptySeriesFails ==
  \A id \in SamplerIds :
    (SamplerFinished(id) /\ (cpu_usage[id] = <<>> \/ memory_usage[id] = <<>>)) =>
      (s_pc[id] = "raised" \/ IsEmptyDict(s_result[id]))

\* A process-scoped call that gathered no memory reading has returned {}.
C4_Witness ==
  /\ s_fn["main"] = "process"
  /\ s_pc["main"] = "done"
  /\ memory_usage["main"] = <<>>
  /\ IsEmptyDict(s_result["main"])

\* C5: a tick is started only while the elapsed time is below the duration,
\* the loop is left at the first test where the elapsed time has reached the
\* duration, whatever the number of ticks, and the sleep that ends a tick is
\* the whole interval however long the tick took.
C5_TimeBudgeted ==
  [][\A id \in SamplerIds :
       /\ (s_pc[id] = "check" /\ s_pc'[id] = "cpu") => elapsed[id] < duration[id]
       /\ (s_pc[id] = "check" /\ s_pc'[id] = "agg") => elapsed[id] >= duration[id]
       /\ (s_pc[id] = "sleep" /\ s_pc'[id] = "check") =>
            elapsed'[id] >= elapsed[id] + SleepInterval]_vars

\* The budget ran out after fewer ticks than the duration nominally holds.
C5_Witness ==
  /\ s_stop["main"] = "budget"
  /\ Len(cpu_usage["main"]) >= 1
  /\ Len(cpu_usage["main"]) * (CpuInterval + SleepInterval) < duration["main"]

\* C2: in a step that runs a monitor thread beside a workload, the rates are
\* computed and the result dict is built only when the workload loop has run
\* to its end and the monitor thread has ended (the step has joined it).
C2_RecordAfterJoin ==
  [][/\ (h_pc = "m_rates" /\ h_pc' # "m_rates")
          => (loop_i = CreateCount /\ SamplerFinished("thr_memgraph"))
     /\ (memgraph_results' # memgraph_results /\ ~IsEmptyDict(memgraph_results'))
          => (loop_i = CreateCount /\ SamplerFinished("thr_memgraph"))
     /\ (script = "resource" /\ h_pc = "n_parse" /\ h_pc' # "n_parse")
          => SamplerFinished("thr_nendb")
     /\ (script = "resource" /\ nendb_results' # nendb_results
            /\ ~IsEmptyDict(nendb_results'))
          => SamplerFinished("thr_nendb")]_vars

\* The rates are about to be computed; the thread beside the workload has
\* sampled and returned.
C2_Witness ==
  /\ h_pc = "m_rates"
  /\ loop_i = CreateCount
  /\ s_pc["thr_memgraph"] = "done"
  /\ Len(cpu_usage["thr_memgraph"]) >= 1

\* C3: the CPU and memory statistics of the result dict are those the monitor
\* thread that ran beside the workload aggregated, not those of another run.
C3_StatsFromConcurrentSampler ==
  [][(h_pc = "m_rates" /\ ~IsEmptyDict(memgraph_results')
        /\ ~IsEmptyDict(s_result["thr_memgraph"]))
       => LET rec == memgraph_results'
              thr == s_result["thr_memgraph"]
          IN /\ FracEq(rec.cpu_avg, thr.cpu_avg)
             /\ rec.cpu_max = thr.cpu_max
             /\ IF script = "accurate"
                THEN /\ FracEq(rec.memory_avg_mb, thr.memory_avg_mb)
                     /\ rec.memory_max_mb = thr.memory_max_mb
                ELSE /\ FracEq(rec.memory_avg_gb, thr.memory_avg_gb)
                     /\ rec.memory_max_gb = thr.memory_max_gb]_vars

\* C6: when the output holds no "ms per insert" line, the result dict is
\* marked as a fallback: no output that does hold the line yields the same dict.
C6_FallbackFlagged ==
  (script = "accurate" /\ h_pc = "n_return" /\ ~HasLine(output, "insert"))
    => \A out \in Outputs :
         LET t == Fallback(ParseOutput(out))
         IN (HasLine(out, "insert") /\ ~RatesRaise(t))
              => NendbRecordOf(script, t[1], t[2], baseline_resources) # NendbRecord

\* C7: whichever of the two timing lines the output holds, the parse step
\* goes on with timings that are parsed or fallback values; it never ends the
\* NenDB step with the empty dict of a failed run.
C7_ParseNeverCrashes ==
  [][(h_pc = "n_parse" /\ h_pc' # "n_parse")
       => (h_pc' = "n_monitor" \/ ~IsEmptyDict(nendb_results'))]_vars

\* C8: when one side was measured on the process and the other on the whole
\* system, the report carries caveat lines and the performance ratio, and the
\* saved document carries the note about the differing methods.
C8_MismatchCaveat ==
  /\ ("caveats" \in DOMAIN report /\ Scope(memgraph_results) # Scope(nendb_results))
       => /\ report.caveats # <<>>
          /\ report.performance_ratio
               = FracDiv(nendb_results.creation_rate, memgraph_results.creation_rate)
  /\ (script = "accurate" /\ ~IsEmptyDict(saved))
       => /\ Scope(saved.memgraph) # Scope(saved.nendb)
          /\ "note" \in DOMAIN saved
          /\ saved.note # ""
  /\ (script = "accurate" /\ ~IsEmptyDict(memgraph_results) /\ ~IsEmptyDict(nendb_results)
        /\ h_pc \in {"save", "end"})
       => "caveats" \in DOMAIN report

\* A finished accurate run: the report is out and the document is saved.
C8_Witness ==
  /\ script = "accurate"
  /\ h_pc = "end"
  /\ ~IsEmptyDict(saved)
  /\ Scope(memgraph_results) = "process"
  /\ Scope(nendb_results) = "system"
  /\ Len(report.caveats) >= 1

\* C9: no ratio the resource report prints or lists is infinite.
C9_NoInfiniteRatio ==
  (script = "resource" /\ "cpu_printed" \in DOMAIN report)
    => /\ report.cpu_printed # Inf
       /\ report.memory_printed # Inf
       /\ \A k \in 1..Len(report.findings) : report.findings[k] # Inf

\* C10: the score of a report is the number of compared metrics NenDB wins
\* strictly (plus, where the report counts them, its two design flags); a metric on
\* which the sides are equal adds nothing.
C10_ScoreCountsStrictWins ==
  ("score" \in DOMAIN report) =>
    LET m == memgraph_results
        n == nendb_results
        x == neo4j_results
        wins ==
          IF script = "real"
          THEN {k \in {"insert", "lookup", "tp", "mem"} :
                  CASE k = "insert" -> n.node_creation_ms < m.node_creation_ms
                    [] k = "lookup" -> n.node_lookup_ms < m.node_lookup_ms
                    [] k = "tp" -> FracLess(m.node_creation_rate, n.node_creation_rate)
                    [] k = "mem" -> n.memory_per_node < m.memory_per_node}
          ELSE IF script = "competitive"
          THEN {o \in {<<k, r>> : k \in {"mem", "insert", "tp"}, r \in {m, x}} :
                  CASE o[1] = "mem" -> n.memory_per_node < o[2].memory_per_node
                    [] o[1] = "insert" -> n.insert_latency_ms < o[2].insert_latency_ms
                    [] o[1] = "tp" ->
                         n.throughput_ops_per_sec > o[2].throughput_ops_per_sec}
          ELSE IF script = "resource"
          THEN {k \in {"create", "cpu", "mem", "cpu_eff", "mem_eff", "io"} :
                  CASE k = "create" -> FracLess(m.creation_rate, n.creation_rate)
                    [] k = "cpu" -> FracLess(n.cpu_avg, m.cpu_avg)
                    [] k = "mem" -> FracLess(n.memory_avg_gb, m.memory_avg_gb)
                    [] k = "cpu_eff" ->
                         FracLess(report.memgraph_cpu_efficiency, report.nendb_cpu_efficiency)
                    [] k = "mem_eff" ->
                         FracLess(report.memgraph_mem_efficiency, report.nendb_mem_efficiency)
                    [] k = "io" -> n.disk_read_mb + n.disk_write_mb
                                     < m.disk_read_mb + m.disk_write_mb}
          ELSE {k \in {"single", "batch", "tp", "mem"} :
                  CASE k = "single" -> n.single_create_ms < m.single_create_ms
                    [] k = "batch" -> n.batch_create_ms < m.batch_create_ms
                    [] k = "tp" -> FracLess(m.single_create_rate, n.single_create_rate)
                    [] k = "mem" -> n.memory_per_node < m.memory_per_node}
        flags ==
          IF script \in {"fair", "real", "competitive"}
          THEN {k \in {"zero_fragmentation", "predictable_performance"} : n[k]}
          ELSE {}
    IN report.score = Cardinality(wins) + Cardinality(flags)

\* A final report over a tie: the single-create timings are equal, so are the
\* throughputs, and only the other metrics can score.
C10_Witness ==
  /\ script = "final"
  /\ "score" \in DOMAIN report
  /\ nendb_results.single_create_ms = memgraph_results.single_create_ms
  /\ nendb_results.batch_create_ms < memgraph_results.batch_create_ms
  /\ report.score = 2

\* C11: in every report that prints a score, max_score is the number of
\* scoring conditions the report evaluates (the metric comparisons and the
\* boolean qualitative flags), and the score lies between 0 and max_score.
C11_MaxScoreCountsConditions ==
  "score" \in DOMAIN report =>
    LET conditions == Conditions(script, memgraph_results, nendb_results, neo4j_results)
    IN /\ report.max_score = Len(conditions)
       /\ 0 <= report.score
       /\ report.score <= report.max_score

\* A fair report in which NenDB loses every timing comparison and is credited
\* for the memory constant and the two qualitative flags.
C11_Witness ==
  /\ script = "fair"
  /\ "score" \in DOMAIN report
  /\ report.score = 3
  /\ report.max_score = 6
  /\ ~HigherWins(nendb_results.single_create_rate, memgraph_results.single_create_rate)

\* C12: the direction of a reported ratio is fixed by the metric.  Where lower
\* is better (CPU, memory, latency) the ratio reported for NenDB is
\* Memgraph's value over NenDB's; where higher is better (throughput) it is
\* the value of the side the ratio is reported for over the other side's.
C12_RatioDirection ==
  LET m == memgraph_results
      n == nendb_results
      Over(a, b) == [num |-> a.num * b.den, den |-> a.den * b.num]
  IN /\ (script = "resource" /\ "score" \in DOMAIN report) =>
          /\ report.performance_ratio = Over(n.creation_rate, m.creation_rate)
          /\ n.cpu_avg.num # 0 => report.cpu_efficiency = Over(m.cpu_avg, n.cpu_avg)
          /\ n.memory_avg_gb.num # 0 =>
                report.memory_efficiency = Over(m.memory_avg_gb, n.memory_avg_gb)
          /\ (n.cpu_avg.num # 0 /\ FracLess(n.cpu_avg, m.cpu_avg)) =>
                report.cpu_printed = Over(m.cpu_avg, n.cpu_avg)
          /\ (n.memory_avg_gb.num # 0 /\ FracLess(n.memory_avg_gb, m.memory_avg_gb)) =>
                report.memory_printed = Over(m.memory_avg_gb, n.memory_avg_gb)
     /\ (script = "final" /\ "score" \in DOMAIN report) =>
          /\ report.speedup = [num |-> m.single_create_ms, den |-> n.single_create_ms]
          /\ report.batch_speedup = [num |-> m.batch_create_ms, den |-> n.batch_create_ms]
          /\ report.throughput_ratio =
                IF FracLess(m.single_create_rate, n.single_create_rate)
                THEN Over(n.single_create_rate, m.single_create_rate)
                ELSE Over(m.single_create_rate, n.single_create_rate)

\* A resource report where NenDB's average memory is half of Memgraph's: the
\* reported ratio is 2 and NenDB is credited for memory.
C12_Witness ==
  /\ script = "resource"
  /\ "score" \in DOMAIN report
  /\ FracEq(nendb_results.memory_avg_gb, Frac(1, 1))
  /\ FracEq(memgraph_results.memory_avg_gb, Frac(2, 1))
  /\ FracEq(report.memory_efficiency, Frac(2, 1))
  /\ ResourceConditions(memgraph_results, nendb_results)[3]

C14_AvgWithinBounds ==
  \A id \in SamplerIds :
    "cpu_avg" \in DOMAIN s_result[id] =>
      LET r == s_result[id]
          gb == "memory_avg_gb" \in DOMAIN r
          memory_avg == IF gb THEN r.memory_avg_gb ELSE r.memory_avg_mb
          memory_min == IF gb THEN r.memory_min_gb ELSE r.memory_min_mb
          memory_max == IF gb THEN r.memory_max_gb ELSE r.memory_max_mb
      IN /\ FracLeq(Frac(r.cpu_min, 1), r.cpu_avg)
         /\ FracLeq(r.cpu_avg, Frac(r.cpu_max, 1))
         /\ FracLeq(Frac(memory_min, 1), memory_avg)
         /\ FracLeq(memory_avg, Frac(memory_max, 1))

\* C15: the creation throughput a Memgraph step reports is the number of
\* queries its loop actually issued divided by the seconds the loop took
\* (which are more than 0).
C15_ThroughputIsCountOverElapsed ==
  [][(h_pc = "m_rates" /\ memgraph_results' # memgraph_results
        /\ ~IsEmptyDict(memgraph_results'))
       => /\ creation_time > 0
          /\ memgraph_results'.creation_time = creation_time
          /\ memgraph_results'.creation_rate = Frac(Issued(loop_i), creation_time)]_vars

\* A Memgraph record of 10000 queries issued in 10 time units.
C15_Witness ==
  /\ ~IsEmptyDict(memgraph_results)
  /\ "creation_rate" \in DOMAIN memgraph_results
  /\ memgraph_results.creation_time = 10
  /\ memgraph_results.creation_rate = Frac(10000, 10)

\* C16: in monitor_resources the disk entry appended at a tick is the
\* cumulative counters read at that tick minus the counters read at the
\* previous tick (at the start, for the first tick), and disk_read_total_mb
\* and disk_write_total_mb are the sums of the entries of the run.
C16_DiskEntriesAreDeltas ==
  [][\A id \in SamplerIds :
       /\ (s_pc[id] = "disk" /\ s_pc'[id] = "sleep" /\ disk_io'[id] # disk_io[id])
            => /\ initial_disk[id] # NoCounters
               /\ initial_disk'[id] # NoCounters
               /\ disk_io'[id] =
                    Append(disk_io[id], <<initial_disk'[id][1] - initial_disk[id][1],
                                          initial_disk'[id][2] - initial_disk[id][2]>>)
       /\ (s_pc[id] = "disk" /\ s_pc'[id] = "sleep" /\ disk_io'[id] = disk_io[id])
            => initial_disk'[id] = initial_disk[id]
       /\ (s_pc[id] = "agg" /\ s_pc'[id] = "done" /\ s_fn[id] = "resources")
            => /\ s_result'[id].disk_read_total_mb = SumReads(disk_io[id])
               /\ s_result'[id].disk_write_total_mb = SumWrites(disk_io[id])]_vars

\* A run of two ticks whose counters started above zero: the first tick read
\* one unit more, the second wrote one, and the totals are 1 and 1.
C16_Witness ==
  /\ s_pc["main"] = "done"
  /\ s_fn["main"] = "resources"
  /\ disk_io["main"] = <<<<1, 0>>, <<0, 1>>>>
  /\ initial_disk["main"] = <<2, 2>>
  /\ s_result["main"].disk_read_total_mb = 1
  /\ s_result["main"].disk_write_total_mb = 1

\* C17: a locator call always returns, also over a list with entries whose
\* inspection raises NoSuchProcess or AccessDenied: it returns the first
\* entry, in the order of the list, whose name or command line contains the
\* hint in any letter case, or None when there is no such entry.
C17_FirstMatchOrNone ==
  h_pc \in {"found_memgraph", "found_nendb"} =>
    LET names == IF h_pc = "found_memgraph" THEN {"memgraph", "Memgraph"} ELSE {"nendb"}
        cmdlines == IF h_pc = "found_memgraph"
                    THEN {<<"/usr/lib/Memgraph/memgraph">>}
                    ELSE {<<"zig-out/bin/NenDB", "serve">>}
        hits == {k \in 1..Len(processes) :
                   /\ ~processes[k].raises
                   /\ processes[k].name \in names \/ processes[k].cmdline \in cmdlines}
    IN IF hits = {}
       THEN target = None
       ELSE target \in hits /\ \A k \in hits : target <= k

\* The first entry cannot be inspected, the second is named "Memgraph" with a
\* capital letter: the locator returns the second.
C17_Witness ==
  /\ h_pc = "found_memgraph"
  /\ Len(processes) = 2
  /\ processes[1].raises
  /\ processes[2].name = "Memgraph"
  /\ target = 2

\* C18: the process sampler is never started with a not-found target: when
\* the locator returns None the Memgraph step returns {} at once, before any
\* call of monitor_process_resources, and every such call is given a process
\* the locator found.
C18_NoSamplingWithoutTarget ==
  [][/\ \A id \in SamplerIds :
          (s_pc[id] = "idle" /\ s_pc'[id] = "check" /\ s_fn'[id] = "process")
            => (target # None /\ target' = target)
     /\ (h_pc = "m_find" /\ h_pc' = "m_connect") => target' # None
     /\ (h_pc = "m_find" /\ h_pc' # "m_find" /\ h_pc' # "m_connect")
          => (IsEmptyDict(memgraph_results') /\ UNCHANGED s_pc)]_vars

\* The baseline call of the accurate script samples the process the locator
\* found as the second entry of the list.
C18_Witness ==
  /\ script = "accurate"
  /\ h_pc = "m_baseline_wait"
  /\ s_fn["main"] = "process"
  /\ s_pc["main"] = "mem"
  /\ target = 2

\* C19: when either side of a two-sided comparison returned the empty dict,
\* the run stops at the check: no report is generated and no results file is
\* written.
C19_EmptySideAborts ==
  (/\ script \in {"accurate", "resource", "final", "fair", "real"}
   /\ IsEmptyDict(memgraph_results) \/ IsEmptyDict(nendb_results))
    => /\ h_pc \notin {"report", "save"}
       /\ report = EmptyDict
       /\ saved = EmptyDict

\* A fair run whose NenDB step failed while the Memgraph step succeeded has
\* ended with nothing reported and nothing saved.
C19_Witness ==
  /\ script = "fair"
  /\ ~IsEmptyDict(memgraph_results)
  /\ IsEmptyDict(nendb_results)
  /\ h_pc = "end"
  /\ report = EmptyDict
  /\ saved = EmptyDict

\* C20: when the sampled process exits after k complete ticks of a longer
\* run, the lists the statistics are computed from hold exactly k CPU
\* readings and k memory readings: nothing is kept from the tick in which the
\* exit was detected.
C20_ExitKeepsCompleteTicks ==
  \A id \in SamplerIds :
    (s_fn[id] = "process" /\ s_stop[id] = "break" /\ proc = "gone")
      => Len(cpu_usage[id]) = Len(memory_usage[id])

\* C21: each sampler tick suspends exactly once, for one interval: time
\* passes in the sleep between ticks and in no other statement of the loop,
\* so consecutive samples are one interval apart and a run of duration D
\* yields about D samples.  Stated of every step of a monitor call: a step
\* in which the call's clock advances is the sleep, and it advances the clock
\* by at least one interval.
C21_TickSuspendsOnce ==
  [][elapsed'["main"] > elapsed["main"]
       => /\ s_pc["main"] = "sleep"
          /\ elapsed'["main"] >= elapsed["main"] + SleepInterval]_vars

\* C22: a keyboard interrupt at any point of a run unwinds cleanly: once it
\* is handled, the results file either does not exist or holds the complete
\* results document, never a part of it.
C22_InterruptLeavesNoPartialFile ==
  h_pc = "interrupted"
    => \/ ~file.exists
       \/ /\ WellFormed(file.chunks)
          /\ Decode(file.chunks) = ResultsDict

\* C23: for every finite duration every sampler loop terminates, so the join
\* on the monitor thread returns and a benchmark whose workload terminates
\* returns: a monitor thread that is inside its loop is eventually out of it,
\* and the step eventually returns, whether the workload finishes before or
\* after the sampling duration.
C23_SamplerAndStepTerminate ==
  /\ (s_pc["thr_memgraph"] \in {"check", "cpu", "mem", "disk", "sleep"})
       ~> (s_pc["thr_memgraph"] \in {"agg", "done", "raised", "idle"})
  /\ <>MemgraphStepReturned

\* The join of the Memgraph step has returned on a monitor thread that ran
\* its loop to the end of the sampling duration.
C23_Witness ==
  /\ h_pc \in {"m_lookup", "m_cleanup"}
  /\ s_pc["thr_memgraph"] = "done"
  /\ s_stop["thr_memgraph"] = "budget"
  /\ Len(cpu_usage["thr_memgraph"]) >= 1

\* C24: on every exit path of a benchmark step that started a monitor
\* thread, the path where the workload raises included, the thread has
\* terminated before the step returns, so that at most one sampler runs at
\* a time across the two steps: once a step's Thread object is out of scope
\* its monitor call is not inside the loop or the statistics, and no two
\* monitor calls are.
C24_ThreadEndsBeforeStepReturns ==
  /\ \A id \in {"thr_memgraph", "thr_nendb"} :
       Detached(id) => s_pc[id] \in {"idle", "done", "raised"}
  /\ Cardinality({id \in SamplerIds : s_pc[id] \notin {"idle", "done", "raised"}}) <= 1

\* C25: in monitor_process_resources the CPU list and the memory list have
\* the same length whenever the loop is at its test and when the statistics
\* are computed, wherever in a tick the process disappears, between the CPU
\* read and the memory read included.
C25_ListsSameLength ==
  \A id \in SamplerIds :
    (s_fn[id] = "process" /\ s_pc[id] \in {"check", "agg"})
      => Len(cpu_usage[id]) = Len(memory_usage[id])

\* C26: generate_resource_report completes without a division by zero for
\* every pair of records with creation_rate > 0 and cpu_avg, memory_avg_gb
\* >= 0, the pairs in which exactly one side's cpu_avg or memory_avg_gb is 0
\* included.
C26_ReportNeverDividesByZero ==
  (script = "resource"
     /\ ~Incomplete(memgraph_results, nendb_results)
     /\ memgraph_results.creation_rate.num > 0 /\ nendb_results.creation_rate.num > 0
     /\ memgraph_results.cpu_avg.num >= 0 /\ nendb_results.cpu_avg.num >= 0
     /\ memgraph_results.memory_avg_gb.num >= 0 /\ nendb_results.memory_avg_gb.num >= 0)
    => "raised" \notin DOMAIN report

\* C27: a NenDB result record never mixes measured and fallback timings: in
\* every script that parses the workload output the timings of the returned
\* record are either all the parsed ones (every line they come from was in
\* the output) or all the hardcoded fallback constants, whichever lines the
\* output holds.
C27_NoMixedTimings ==
  (h_pc = "check" /\ ~IsEmptyDict(nendb_results))
    => LET parsed == ParseOutput(output)
           constants == IF script \in {"fair", "real"}
                        THEN <<FairFallbackInsert, FairFallbackLookup>>
                        ELSE <<FallbackInsert, FallbackLookup>>
           timings ==
             CASE script \in {"accurate", "resource"} ->
                    <<nendb_results.insert_time_ms, nendb_results.lookup_time_ms>>
               [] script = "final" ->
                    <<nendb_results.single_create_ms, lookup_time>>
               [] script = "fair" ->
                    <<nendb_results.single_create_ms, nendb_results.single_lookup_ms>>
               [] script = "real" ->
                    <<nendb_results.node_creation_ms, nendb_results.node_lookup_ms>>
       IN \/ /\ HasLine(output, "insert")
             /\ HasLine(output, "lookup")
             /\ timings = parsed
          \/ timings = constants

\* A fair record built from an output that held the insert line only: both of
\* its timings are the fallback constants.
C27_Witness ==
  /\ script = "fair"
  /\ h_pc = "check"
  /\ HasLine(output, "insert")
  /\ ~HasLine(output, "lookup")
  /\ ~IsEmptyDict(nendb_results)
  /\ nendb_results.single_create_ms = FairFallbackInsert
  /\ nendb_results.single_lookup_ms = FairFallbackLookup

\* C28: in every result record, on both sides of a comparison, the
\* operations-per-second rate and the milliseconds-per-operation latency of
\* the same operation are reciprocal in the same units: rate * latency_ms =
\* 1000 (with the latency held in units of 1e-6 ms and the rate in units of
\* 1e6 per second, rate * latency = RateScale).
C28_RateTimesLatencyIsThousand ==
  LET IsReciprocal(rate, latency) ==
        /\ rate.num % RateScale = 0
        /\ (rate.num \div RateScale) * latency = rate.den
  IN \A rec \in {memgraph_results, nendb_results} :
       /\ (script = "real" /\ ~IsEmptyDict(rec))
            => /\ IsReciprocal(rec.node_creation_rate, rec.node_creation_ms)
               /\ IsReciprocal(rec.node_lookup_rate, rec.node_lookup_ms)
               /\ IsReciprocal(rec.relationship_creation_rate, rec.relationship_creation_ms)
       /\ (script = "fair" /\ ~IsEmptyDict(rec))
            => /\ IsReciprocal(rec.single_create_rate, rec.single_create_ms)
               /\ IsReciprocal(rec.single_lookup_rate, rec.single_lookup_ms)
               /\ IsReciprocal(rec.batch_create_rate, rec.batch_create_ms)
               /\ IsReciprocal(rec.batch_lookup_rate, rec.batch_lookup_ms)

\* C29: in the fair and the real Memgraph comparison (maximum 6) the score
\* is at least 2 for every pair of measured records: the flags
\* zero_fragmentation and predictable_performance are true in every NenDB
\* record, so the score is 2 plus the number of the four metric comparisons
\* NenDB wins, and lies in 2..6.
C29_ScoreAtLeastTwo ==
  (script \in {"fair", "real"} /\ "score" \in DOMAIN report)
    => /\ nendb_results.zero_fragmentation
       /\ nendb_results.predictable_performance
       /\ report.score \in 2..report.max_score
       /\ report.max_score = 6
       /\ LET metrics == SubSeq(Conditions(script, memgraph_results, nendb_results,
                                           neo4j_results), 1, 4)
          IN report.score = 2 + Cardinality({k \in 1..4 : metrics[k]})

\* A real comparison in which NenDB is slower and has the lower throughput:
\* beside the two flags only the memory comparison adds to the score.
C29_Witness ==
  /\ script = "real"
  /\ "score" \in DOMAIN report
  /\ nendb_results.node_creation_ms > memgraph_results.node_creation_ms
  /\ nendb_results.node_lookup_ms > memgraph_results.node_lookup_ms
  /\ ~HigherWins(nendb_results.node_creation_rate, memgraph_results.node_creation_rate)
  /\ report.score = 3

\* C30: in competitive_benchmark (and docker_limitation_analysis) a results
\* file is written only when every side's benchmark produced a non-empty
\* record: no persisted document holds an empty side.
C30_NoEmptySidePersisted ==
  (script = "competitive" /\ file.exists)
    => LET document == Decode(file.chunks)
       IN \A side \in DOMAIN document : ~IsEmptyDict(document[side])

====
